---- MODULE Spec2Model ----
(***************************************************************************)
(* A model of elevenlabs_mcp: the helpers of utils.py (output-path         *)
(* resolution, output-file naming, input-file validation, spooling of      *)
(* oversized text) and the tools of server.py built on them.               *)
(*                                                                         *)
(* Text is a sequence of one-character strings; a file name is such a      *)
(* sequence; a path string is kept in parsed form as a record              *)
(* [tag, abs, parts]: abs tells whether the string starts with "/", parts  *)
(* are its components.  The string with no components and abs = FALSE is   *)
(* the empty string "".                                                    *)
(***************************************************************************)
EXTENDS Integers, Sequences, FiniteSets, TLC

VARIABLES
    fs,        \* the filesystem: absolute component sequence -> node
    tmp,       \* the temporary directory: temp-file name -> bytes written
    linesep,   \* os.linesep of the platform the server runs on
    envBase,   \* ELEVENLABS_MCP_BASE_PATH as the process sees it
    now,       \* the local clock, in seconds since 2024-01-01 00:00:00
    remote,    \* the remote API calls of the last tool invocation, in order
    last,      \* the last operation: its arguments and how it ended
    written,   \* the latest two files the tools wrote, oldest first
    cloud      \* the remote service: its documents, the agent's knowledge base

vars == <<fs, tmp, linesep, envBase, now, remote, last, written, cloud>>

(***************************************************************************)
(* Bounds of the model.                                                    *)
(***************************************************************************)
MaxLen == 2        \* longest text handed to the spooler
MaxClock == 1      \* last second the clock reaches

(***************************************************************************)
(* Characters and text                                                     *)
(***************************************************************************)
LF == "\n"
CR == "\r"
SUR == "U+D800"    \* a lone surrogate code point: a legal str element
EAC == "U+00E9"    \* e with acute accent: two bytes in UTF-8
SP == " "
US == "_"
SLASH == "/"

\* str.replace(old, new) for one-character old and new
Replace(s, old, new) == [i \in 1..Len(s) |-> IF s[i] = old THEN new ELSE s[i]]

\* s[:n]
Prefix(s, n) == IF Len(s) <= n THEN s ELSE SubSeq(s, 1, n)

\* the concatenation of the sequences of ss, halves first so that long
\* texts do not nest deeply
RECURSIVE Flatten(_)
Flatten(ss) ==
    IF ss = <<>> THEN <<>>
    ELSE IF Len(ss) = 1 THEN ss[1]
    ELSE LET half == Len(ss) \div 2
         IN  Flatten(SubSeq(ss, 1, half))
                 \o Flatten(SubSeq(ss, half + 1, Len(ss)))

\* all sequences over S of length at most n
RECURSIVE SeqsUpTo(_, _)
SeqsUpTo(S, n) ==
    IF n = 0 THEN {<<>>}
    ELSE LET shorter == SeqsUpTo(S, n - 1)
         IN  shorter \cup {Append(s, c) : s \in shorter, c \in S}

(***************************************************************************)
(* Text files: what a file object opened in text mode with                 *)
(* encoding="utf-8" (errors strict, newline None) writes and reads.        *)
(***************************************************************************)

\* the printable ASCII characters, from code 32 on (the quote, the
\* backslash and the backtick by their code points)
Ascii ==
    <<
      " ", "!", "U+0022", "#", "$", "%", "&", "'", "(", ")", "*", "+",
      ",", "-", ".", "/", "0", "1", "2", "3", "4", "5", "6", "7",
      "8", "9", ":", ";", "<", "=", ">", "?", "@", "A", "B", "C",
      "D", "E", "F", "G", "H", "I", "J", "K", "L", "M", "N", "O",
      "P", "Q", "R", "S", "T", "U", "V", "W", "X", "Y", "Z", "[",
      "U+005C", "]", "^", "_", "U+0060", "a", "b", "c", "d", "e", "f", "g",
      "h", "i", "j", "k", "l", "m", "n", "o", "p", "q", "r", "s",
      "t", "u", "v", "w", "x", "y", "z", "{", "|", "}", "~" >>

\* the UTF-8 encoding of one code point; a lone surrogate has none
Utf8(c) ==
    CASE c = LF  -> <<10>>
      [] c = CR  -> <<13>>
      [] c = EAC -> <<195, 169>>
      [] c = SUR -> <<>>
      [] OTHER   -> <<31 + CHOOSE i \in 1..Len(Ascii) : Ascii[i] = c>>

Encodable(s) == \A i \in 1..Len(s) : s[i] # SUR

\* newline=None on output: every "\n" is written as os.linesep
TranslateOut(s, sep) ==
    Flatten([i \in 1..Len(s) |-> IF s[i] = LF THEN sep ELSE <<s[i]>>])

\* str.encode("utf-8") of an encodable text
Utf8Encode(s) == Flatten([i \in 1..Len(s) |-> Utf8(s[i])])

\* bytes.decode("utf-8") of bytes Utf8Encode produced
RECURSIVE Utf8Decode(_)
Utf8Decode(b) ==
    IF b = <<>> THEN <<>>
    ELSE IF Head(b) = 195 /\ Len(b) >= 2 /\ b[2] = 169
         THEN <<EAC>> \o Utf8Decode(Tail(Tail(b)))
         ELSE LET c == CASE Head(b) = 10 -> LF
                         [] Head(b) = 13 -> CR
                         [] Head(b) \in 32..126 -> Ascii[Head(b) - 31]
                         [] OTHER -> "?"
              IN  <<c>> \o Utf8Decode(Tail(b))

\* newline=None on input: "\r\n" and "\r" are both read as "\n"
RECURSIVE TranslateIn(_)
TranslateIn(s) ==
    IF s = <<>> THEN <<>>
    ELSE IF Head(s) = CR
         THEN IF Len(s) >= 2 /\ s[2] = LF
              THEN <<LF>> \o TranslateIn(Tail(Tail(s)))
              ELSE <<LF>> \o TranslateIn(Tail(s))
         ELSE <<Head(s)>> \o TranslateIn(Tail(s))

\* open(path, encoding="utf-8").read()
ReadText(bytes) == TranslateIn(Utf8Decode(bytes))

(***************************************************************************)
(* handle_large_text                                                       *)
(***************************************************************************)
TmpNames == {"tmpa.txt", "tmpb.txt"}
EmptyDir == [n \in {} |-> <<>>]

\* str.upper(), str.lower() of one character
Upper(c) ==
    CASE c = "c" -> "C" [] c = "l" -> "L" [] c = "i" -> "I"
      [] c = "m" -> "M" [] c = "p" -> "P" [] c = "t" -> "T" [] OTHER -> c
Lower(c) ==
    CASE c = "C" -> "c" [] c = "L" -> "l" [] c = "I" -> "i"
      [] c = "M" -> "m" [] c = "P" -> "p" [] c = "T" -> "t"
      [] c = "W" -> "w" [] c = "O" -> "o" [] c = "S" -> "s"
      [] c = "R" -> "r" [] c = "U" -> "u" [] c = "N" -> "n"
      [] c = "K" -> "k" [] OTHER -> c

\* str.capitalize()
Capitalize(s) ==
    [i \in 1..Len(s) |-> IF i = 1 THEN Upper(s[i]) ELSE Lower(s[i])]

FreshNames_any(dir) == TmpNames

\* tempfile.NamedTemporaryFile(mode="w", suffix=".txt", delete=False,
\* encoding="utf-8") creates its file exclusively: under a name not in use
FreshNames(dir) == TmpNames \ DOMAIN dir

TooLong_ge(text, max_length) == Len(text) >= max_length

\* len(text) > max_length
TooLong(text, max_length) == Len(text) > max_length

FileWrite_cut(text, sep) ==
    IF Encodable(text)
    THEN [ok |-> TRUE, bytes |-> Utf8Encode(TranslateOut(Prefix(text, 1), sep))]
    ELSE [ok |-> FALSE, bytes |-> <<>>]

\* temp_file.write(text): the bytes that reach the file, or the encoder's
\* refusal (nothing is written then)
FileWrite(text, sep) ==
    IF Encodable(text)
    THEN [ok |-> TRUE, bytes |-> Utf8Encode(TranslateOut(text, sep))]
    ELSE [ok |-> FALSE, bytes |-> <<>>]

\* handle_large_text(text, max_length, content_type) with the temporary
\* directory holding dir and the new file created under `name`
handle_large_text(text, max_length, content_type, dir, name, sep) ==
    IF TooLong(text, max_length)
    THEN LET w == FileWrite(text, sep)
         IN  IF w.ok
             THEN [status |-> "ok", err |-> "",
                   value |-> [kind |-> "reference",
                              head |-> Capitalize(content_type),
                              path |-> name,
                              tail |-> content_type],
                   dir |-> dir @@ (name :> w.bytes)]
             ELSE [status |-> "raise", err |-> "UnicodeEncodeError",
                   value |-> [kind |-> "none"],
                   dir |-> dir @@ (name :> <<>>)]
    ELSE [status |-> "ok", err |-> "",
          value |-> [kind |-> "text", text |-> text], dir |-> dir]

HandleLargeText ==
    \E text \in SeqsUpTo({"a", EAC, LF, CR, SUR}, MaxLen),
       max_length \in -1..MaxLen, content_type \in {<<"l", "I">>},
       name \in FreshNames(tmp) :
        \E r \in {handle_large_text(text, max_length, content_type,
                                    tmp, name, linesep)} :
            /\ tmp' = r.dir
            /\ last' = [op |-> "handle_large_text", text |-> text,
                        max_length |-> max_length,
                        content_type |-> content_type,
                        status |-> r.status, err |-> r.err,
                        value |-> r.value, before |-> tmp]
            /\ UNCHANGED <<fs, linesep, envBase, now, remote, written, cloud>>

(***************************************************************************)
(* Paths and the filesystem.  A node is a directory, a regular file or a   *)
(* special entry (a socket, a fifo); w is what os.access(path, os.W_OK)    *)
(* answers for it, and what the kernel allows when an entry is created in  *)
(* it.  Every entry but the root lies in a directory that exists.          *)
(***************************************************************************)
Tilde == <<"~">>
Desktop == <<"D", "e", "s", "k", "t", "o", "p">>
HomeDir == <<"h">>
WorkDir == <<"w">>
Home == <<HomeDir>>                \* $HOME is /h
Cwd == <<HomeDir, WorkDir>>        \* the server runs in /h/w

Str(abs, parts) == [tag |-> "str", abs |-> abs, parts |-> parts]
NoneStr == [tag |-> "None", abs |-> FALSE, parts |-> <<>>]

\* bool(s) of an optional string: None and "" are false
Truthy(s) == s.tag = "str" /\ (s.abs \/ s.parts # <<>>)

\* os.path.isabs(s)
isabs(s) == s.abs

\* os.path.expanduser(s): a leading "~" component becomes $HOME
expanduser(s) ==
    IF ~s.abs /\ s.parts # <<>> /\ Head(s.parts) = Tilde
    THEN Str(TRUE, Home \o Tail(s.parts))
    ELSE s

\* Path(s)
PathOf(s) == [abs |-> s.abs, parts |-> s.parts]

\* p / q
Join(p, q) == IF q.abs THEN q ELSE [abs |-> p.abs, parts |-> p.parts \o q.parts]

\* p.parent
Parent(p) ==
    IF p.parts = <<>> THEN p
    ELSE [p EXCEPT !.parts = SubSeq(p.parts, 1, Len(p.parts) - 1)]

\* p.name
NameOf(p) == IF p.parts = <<>> THEN <<>> ELSE p.parts[Len(p.parts)]

\* where the kernel finds p: relative paths start at the working directory
Locate(p) == IF p.abs THEN p.parts ELSE Cwd \o p.parts

Exists(f, p) == Locate(p) \in DOMAIN f
IsDir(f, p) == Exists(f, p) /\ f[Locate(p)].kind = "dir"
IsFile(f, p) == Exists(f, p) /\ f[Locate(p)].kind = "file"

\* os.access(p, os.W_OK)
AccessW(f, p) == Exists(f, p) /\ f[Locate(p)].w

\* os.mkdir(p): the errno the kernel answers, or the directory made
os_mkdir(f, p) ==
    LET a == Locate(p)
        gaps == {i \in 1..Len(a) : SubSeq(a, 1, i) \notin DOMAIN f}
        first == CHOOSE i \in gaps : \A j \in gaps : i <= j
    IN  IF a \in DOMAIN f
        THEN [err |-> "FileExistsError", fs |-> f]
        ELSE IF f[SubSeq(a, 1, first - 1)].kind # "dir"
        THEN [err |-> "NotADirectoryError", fs |-> f]
        ELSE IF first < Len(a)
        THEN [err |-> "FileNotFoundError", fs |-> f]
        ELSE IF ~f[SubSeq(a, 1, first - 1)].w
        THEN [err |-> "PermissionError", fs |-> f]
        ELSE [err |-> "",
              fs |-> f @@ (a :> [kind |-> "dir", w |-> TRUE, data |-> <<>>])]

\* the except OSError branch of Path.mkdir with exist_ok=True
ExistOk(f, p, r) ==
    IF r.err # "" /\ r.err # "FileNotFoundError" /\ IsDir(f, p)
    THEN [err |-> "", fs |-> f]
    ELSE r

\* Path.mkdir(parents=True, exist_ok=True)
RECURSIVE MkdirParents(_, _)
MkdirParents(f, p) ==
    LET r == os_mkdir(f, p)
    IN  IF r.err = "FileNotFoundError"
        THEN IF Parent(p) = p THEN r
             ELSE LET up == MkdirParents(f, Parent(p))
                  IN  IF up.err # "" THEN up
                      ELSE ExistOk(up.fs, p, os_mkdir(up.fs, p))
        ELSE ExistOk(f, p, r)

Mkdir_none(f, p) == [err |-> "", fs |-> f]

\* output_path.mkdir(parents=True, exist_ok=True)
Mkdir(f, p) == MkdirParents(f, p)

(***************************************************************************)
(* is_file_writeable, make_output_path                                     *)
(***************************************************************************)
is_file_writeable_parent(f, path) == AccessW(f, Parent(path))

RECURSIVE is_file_writeable_ancestor(_, _)
is_file_writeable_ancestor(f, path) ==
    IF Exists(f, path) THEN AccessW(f, path)
    ELSE IF Parent(path) = path THEN FALSE
    ELSE is_file_writeable_ancestor(f, Parent(path))

is_file_writeable(f, path) ==
    IF Exists(f, path) THEN AccessW(f, path) ELSE AccessW(f, Parent(path))

ResolveOutput_nobase(output_directory, base_path) ==
    IF output_directory.tag = "None"
    THEN Join([abs |-> TRUE, parts |-> Home], [abs |-> FALSE,
            parts |-> <<Desktop>>])
    ELSE PathOf(expanduser(output_directory))

\* lines 35-41: the directory make_output_path settles on
ResolveOutput(output_directory, base_path) ==
    IF output_directory.tag = "None"
    THEN Join([abs |-> TRUE, parts |-> Home], [abs |-> FALSE,
            parts |-> <<Desktop>>])
    ELSE IF ~isabs(output_directory) /\ Truthy(base_path)
    THEN Join(PathOf(expanduser(base_path)), PathOf(output_directory))
    ELSE PathOf(expanduser(output_directory))

NoPath == [abs |-> FALSE, parts |-> <<>>]

\* lines 44-45: the directory is made and returned
MakeAndReturn(output_path, m) ==
    IF m.err # ""
    THEN [status |-> "raise", err |-> m.err, msg |-> "",
          value |-> NoPath, fs |-> m.fs]
    ELSE [status |-> "ok", err |-> "", msg |-> "",
          value |-> output_path, fs |-> m.fs]

\* lines 42-45
CheckAndMake(output_path, f) ==
    IF ~is_file_writeable(f, output_path)
    THEN [status |-> "raise", err |-> "ElevenLabsMcpError",
          msg |-> "is not writeable", value |-> NoPath, fs |-> f]
    ELSE MakeAndReturn(output_path, Mkdir(f, output_path))

\* make_output_path(output_directory, base_path) on the filesystem f
make_output_path(output_directory, base_path, f) ==
    CheckAndMake(ResolveOutput(output_directory, base_path), f)

(***************************************************************************)
(* check_audio_file, find_similar_filenames, try_find_similar_files,       *)
(* handle_input_file                                                       *)
(***************************************************************************)
Threshold == 70
TakeN == 5

audio_extensions ==
    { <<".", "w", "a", "v">>, <<".", "m", "p", "3">>, <<".", "m", "4", "a">>,
      <<".", "a", "a", "c">>, <<".", "o", "g", "g">>,
      <<".", "f", "l", "a", "c">>, <<".", "m", "p", "4">>,
      <<".", "a", "v", "i">>, <<".", "m", "o", "v">>, <<".", "w", "m", "v">> }

\* Path.suffix: the name from its last "." on, unless that "." opens or
\* closes the name
Suffix(name) ==
    LET dots == {i \in 1..Len(name) : name[i] = "."}
        i == CHOOSE d \in dots : \A e \in dots : e <= d
    IN  IF dots = {} THEN <<>>
        ELSE IF 1 < i /\ i < Len(name) THEN SubSeq(name, i, Len(name))
        ELSE <<>>

LowerStr_same(s) == s

LowerStr(s) == [i \in 1..Len(s) |-> Lower(s[i])]

check_audio_file_exact(path) == Suffix(NameOf(path)) \in audio_extensions

\* check_audio_file(path)
check_audio_file(path) == LowerStr(Suffix(NameOf(path))) \in audio_extensions

\* all orders a finite set can be listed in
RECURSIVE Perms(_)
Perms(S) ==
    IF S = {} THEN {<<>>}
    ELSE UNION {{<<x>> \o q : q \in Perms(S \ {x})} : x \in S}

Children(f, d) ==
    {a \in DOMAIN f : Len(a) = Len(d) + 1 /\ SubSeq(a, 1, Len(d)) = d}

\* os.walk(d), top down: the non-directories of d in the order the
\* directory lists them, then each sub-directory's walk; the listing order
\* is the filesystem's
RECURSIVE Walks(_, _)
Walks(f, d) ==
    IF d \notin DOMAIN f \/ f[d].kind # "dir" THEN {<<>>}
    ELSE LET files == {a \in Children(f, d) : f[a].kind # "dir"}
             dirs == {a \in Children(f, d) : f[a].kind = "dir"}
             below == UNION {Walks(f, sd) : sd \in dirs}
         IN  {pf \o Flatten([i \in 1..Len(pd) |-> ws[pd[i]]]) :
                 pf \in Perms(files), pd \in Perms(dirs),
                 ws \in {g \in [dirs -> below] :
                            \A sd \in dirs : g[sd] \in Walks(f, sd)}}

\* list.sort(key=score, reverse=True): stable, by non-increasing score
RECURSIVE InsertByScore(_, _)
InsertByScore(sorted, x) ==
    IF sorted = <<>> THEN <<x>>
    ELSE IF Head(sorted).score >= x.score
         THEN <<Head(sorted)>> \o InsertByScore(Tail(sorted), x)
         ELSE <<x>> \o sorted

RECURSIVE SortByScore(_)
SortByScore(xs) ==
    IF xs = <<>> THEN <<>>
    ELSE InsertByScore(SortByScore(SubSeq(xs, 1, Len(xs) - 1)), xs[Len(xs)])

\* find_similar_filenames(target_file, directory): walk lists the files
\* found, ratio is fuzz.token_sort_ratio(target, .) on their names.  The
\* skip of lines 66-70 never applies: target_file is a bare name and
\* os.path.join(root, filename) never is.
find_similar_filenames(directory, walk, ratio) ==
    LET at == Locate(directory)
        scored == [i \in 1..Len(walk) |->
                     [path |-> [abs |-> directory.abs,
                                parts |-> directory.parts \o
                                   SubSeq(walk[i], Len(at) + 1, Len(walk[i]))],
                      score |-> ratio[walk[i][Len(walk[i])]]]]
        kept == SelectSeq(scored, LAMBDA x : x.score >= Threshold)
    IN  SortByScore(kept)

try_find_similar_files_filterfirst(directory, walk, ratio) ==
    LET similar_files == find_similar_filenames(directory, walk, ratio)
        audio == SelectSeq(similar_files, LAMBDA x : check_audio_file(x.path))
        top == Prefix(audio, TakeN)
    IN  [i \in 1..Len(top) |-> top[i].path]

\* try_find_similar_files(filename, directory)
try_find_similar_files(directory, walk, ratio) ==
    LET similar_files == find_similar_filenames(directory, walk, ratio)
        top == Prefix(similar_files, TakeN)
        audio == SelectSeq(top, LAMBDA x : check_audio_file(x.path))
    IN  [i \in 1..Len(audio) |-> audio[i].path]

InputError(msg, suggestions, probes) ==
    [status |-> "raise", err |-> "ElevenLabsMcpError", msg |-> msg,
     suggestions |-> suggestions, value |-> NoPath, probes |-> probes]

\* whether handle_input_file gets to search for similar files
Searches(file_path, env, f) ==
    /\ isabs(file_path) \/ Truthy(env)
    /\ ~Exists(f, PathOf(file_path))
    /\ Exists(f, Parent(PathOf(file_path)))

NeedsBase_none(file_path, env) == ~isabs(file_path) /\ env.tag = "None"

\* line 115: a relative path while ELEVENLABS_MCP_BASE_PATH is unset or ""
NeedsBase(file_path, env) == ~isabs(file_path) /\ ~Truthy(env)

Missing_pick(similar_files) ==
    IF similar_files # <<>>
    THEN [status |-> "ok", err |-> "", msg |-> "", suggestions |-> <<>>,
          value |-> similar_files[1],
          probes |-> <<"exists", "parent.exists", "walk">>]
    ELSE InputError("does not exist", <<>>,
                    <<"exists", "parent.exists", "walk">>)

\* lines 123-128: the path is missing and its parent is there
Missing(similar_files) ==
    IF similar_files # <<>>
    THEN InputError("does not exist. Did you mean", similar_files,
                    <<"exists", "parent.exists", "walk">>)
    ELSE InputError("does not exist", <<>>,
                    <<"exists", "parent.exists", "walk">>)

handle_input_file_typefirst(file_path, audio_content_check, env, f, walk, ratio) ==
    LET path == PathOf(file_path)
    IN  IF NeedsBase(file_path, env)
        THEN InputError("must be an absolute path", <<>>, <<>>)
        ELSE IF ~Exists(f, path) /\ Exists(f, Parent(path))
        THEN Missing(try_find_similar_files(Parent(path), walk, ratio))
        ELSE IF ~Exists(f, path)
        THEN InputError("does not exist", <<>>,
                        <<"exists", "parent.exists", "exists">>)
        ELSE IF audio_content_check /\ ~check_audio_file(path)
        THEN InputError("is not an audio or video file", <<>>,
                        <<"exists", "exists">>)
        ELSE IF ~IsFile(f, path)
        THEN InputError("is not a file", <<>>,
                        <<"exists", "exists", "is_file">>)
        ELSE [status |-> "ok", err |-> "", msg |-> "", suggestions |-> <<>>,
              value |-> path, probes |-> <<"exists", "exists", "is_file">>]

\* handle_input_file(file_path, audio_content_check) with the environment
\* variable env and the filesystem f; probes lists the filesystem queries
\* made, in order
handle_input_file(file_path, audio_content_check, env, f, walk, ratio) ==
    LET path == PathOf(file_path)
    IN  IF NeedsBase(file_path, env)
        THEN InputError("must be an absolute path", <<>>, <<>>)
        ELSE IF ~Exists(f, path) /\ Exists(f, Parent(path))
        THEN Missing(try_find_similar_files(Parent(path), walk, ratio))
        ELSE IF ~Exists(f, path)
        THEN InputError("does not exist", <<>>,
                        <<"exists", "parent.exists", "exists">>)
        ELSE IF ~IsFile(f, path)
        THEN InputError("is not a file", <<>>,
                        <<"exists", "exists", "is_file">>)
        ELSE IF audio_content_check /\ ~check_audio_file(path)
        THEN InputError("is not an audio or video file", <<>>,
                        <<"exists", "exists", "is_file">>)
        ELSE [status |-> "ok", err |-> "", msg |-> "", suggestions |-> <<>>,
              value |-> path, probes |-> <<"exists", "exists", "is_file">>]

(***************************************************************************)
(* The operations as steps                                                 *)
(***************************************************************************)
AMp3 == <<"a", ".", "m", "p", "3">>
BMp3 == <<"b", ".", "m", "p", "3">>
UMp3 == <<"A", ".", "M", "P", "3">>
NTxt == <<"n", ".", "t", "x", "t">>
RoDir == <<"r", "o">>
RDir == <<"r">>
QDir == <<"q">>
DDir == <<"d">>

Dir(w) == [kind |-> "dir", w |-> w, data |-> <<>>]
File(data) == [kind |-> "file", w |-> TRUE, data |-> data]

\* /h/w holds a.mp3, n.txt and a read-only d with A.MP3 in it; /h/ro is
\* read-only; /h may be writable, and may hold Desktop, or not
StartFs(homeWritable, desktop) ==
    LET core == (<<>> :> Dir(FALSE))
             @@ (Home :> Dir(homeWritable))
             @@ (Cwd :> Dir(TRUE))
             @@ (Cwd \o <<AMp3>> :> File(<<1>>))
             @@ (Cwd \o <<NTxt>> :> File(<<2>>))
             @@ (Cwd \o <<DDir>> :> Dir(FALSE))
             @@ (Cwd \o <<DDir, UMp3>> :> File(<<3>>))
             @@ (Home \o <<RoDir>> :> Dir(FALSE))
    IN  IF desktop THEN core @@ (Home \o <<Desktop>> :> Dir(TRUE)) ELSE core

MakeOutputPath ==
    \E output_directory \in
           {NoneStr, Str(FALSE, <<>>), Str(FALSE, <<RDir>>),
            Str(FALSE, <<Tilde, RDir>>), Str(FALSE, <<QDir, RDir>>),
            Str(TRUE, Cwd \o <<RDir>>), Str(TRUE, Home \o <<RoDir>>),
            Str(TRUE, Home \o <<RoDir, RDir>>), Str(TRUE, Cwd \o <<AMp3>>),
            Str(TRUE, Cwd \o <<AMp3, RDir>>),
            Str(TRUE, Home \o <<QDir, RDir>>)},
       base_path \in
           {NoneStr, Str(FALSE, <<>>), Str(TRUE, Cwd),
            Str(FALSE, <<Tilde, WorkDir>>), Str(FALSE, <<WorkDir>>),
            Str(TRUE, Home \o <<RoDir>>)} :
        \E r \in {make_output_path(output_directory, base_path, fs)} :
            /\ fs' = r.fs
            /\ last' = [op |-> "make_output_path",
                        output_directory |-> output_directory,
                        base_path |-> base_path,
                        status |-> r.status, err |-> r.err, msg |-> r.msg,
                        value |-> r.value, before |-> fs]
            /\ UNCHANGED <<tmp, linesep, envBase, now, remote, written, cloud>>

\* what fuzz.token_sort_ratio may answer
Scores == {Threshold - 1, Threshold, 100}

HandleInputFile ==
    \E file_path \in
           {Str(TRUE, Cwd \o <<AMp3>>), Str(TRUE, Cwd \o <<NTxt>>),
            Str(TRUE, Cwd \o <<BMp3>>), Str(TRUE, Cwd \o <<DDir, UMp3>>),
            Str(TRUE, Cwd \o <<DDir>>), Str(TRUE, Home \o <<QDir, AMp3>>),
            Str(FALSE, <<AMp3>>), Str(FALSE, <<BMp3>>), Str(FALSE, <<NTxt>>),
            Str(FALSE, <<>>)},
       audio_content_check \in BOOLEAN :
      \E walk \in IF Searches(file_path, envBase, fs)
                  THEN Walks(fs, Locate(Parent(PathOf(file_path))))
                  ELSE {<<>>} :
        \E ratio \in [{walk[i][Len(walk[i])] : i \in 1..Len(walk)} -> Scores] :
          \E r \in {handle_input_file(file_path, audio_content_check,
                                      envBase, fs, walk, ratio)} :
              /\ last' = [op |-> "handle_input_file",
                          file_path |-> file_path,
                          audio_content_check |-> audio_content_check,
                          status |-> r.status, err |-> r.err, msg |-> r.msg,
                          suggestions |-> r.suggestions, value |-> r.value,
                          probes |-> r.probes]
              /\ UNCHANGED <<fs, tmp, linesep, envBase, now, remote, written, cloud>>

(***************************************************************************)
(* make_output_file                                                        *)
(***************************************************************************)
IdLen == 5

Digits == <<"0", "1", "2", "3", "4", "5", "6", "7", "8", "9">>
TwoDigits(n) == <<Digits[(n \div 10) + 1], Digits[(n % 10) + 1]>>

\* datetime.now().strftime('%Y%m%d_%H%M%S'), t seconds into 2024-01-01
strftime(t) ==
    <<"2", "0", "2", "4", "0", "1", "0", "1", US>>
        \o TwoDigits(t \div 3600) \o TwoDigits((t \div 60) % 60)
        \o TwoDigits(t % 60)

\* the components of a path given as text: what "/" separates, empty
\* components dropped
RECURSIVE SplitPath(_, _)
SplitPath(chars, cur) ==
    IF chars = <<>> THEN (IF cur = <<>> THEN <<>> ELSE <<cur>>)
    ELSE IF Head(chars) = SLASH
         THEN (IF cur = <<>> THEN <<>> ELSE <<cur>>)
                  \o SplitPath(Tail(chars), <<>>)
         ELSE SplitPath(Tail(chars), Append(cur, Head(chars)))

\* Path(text)
ParsePath(chars) ==
    [abs |-> chars # <<>> /\ Head(chars) = SLASH,
     parts |-> SplitPath(chars, <<>>)]

FileId_spaces(text, full_id) == IF full_id THEN text ELSE Prefix(text, IdLen)

FileId_full(text, full_id) == Replace(text, SP, US)

\* lines 26 and 28: the content component of the name
FileId(text, full_id) ==
    Replace(IF full_id THEN text ELSE Prefix(text, IdLen), SP, US)

\* make_output_file(tool, text, output_path, extension, full_id) at time t
make_output_file(tool, text, output_path, extension, full_id, t) ==
    LET output_file_name ==
            tool \o <<US>> \o FileId(text, full_id) \o <<US>> \o strftime(t)
                 \o <<".">> \o extension
    IN  Join(output_path, ParsePath(output_file_name))

(***************************************************************************)
(* text_to_speech                                                          *)
(***************************************************************************)
\* with open(p, "wb") as f: f.write(bytes).  A new file can be made where
\* a directory could be.
WriteBinary(f, p, bytes) ==
    LET a == Locate(p)
    IN  IF a \in DOMAIN f
        THEN IF f[a].kind = "dir" THEN [err |-> "IsADirectoryError", fs |-> f]
             ELSE IF ~f[a].w THEN [err |-> "PermissionError", fs |-> f]
             ELSE [err |-> "", fs |-> [f EXCEPT ![a].data = bytes]]
        ELSE LET m == os_mkdir(f, p)
             IN  IF m.err # "" THEN [err |-> m.err, fs |-> f]
                 ELSE [err |-> "", fs |-> f @@ (a :> File(bytes))]

Mp3 == <<"m", "p", "3">>

ToolFail(err, msg, calls, f) ==
    [status |-> "raise", err |-> err, msg |-> msg, file |-> NoPath,
     audio |-> <<>>, calls |-> calls, fs |-> f]

\* lines 157-164: the audio is written and the tool answers
StoreAudio(file, audio, calls, wr) ==
    IF wr.err # ""
    THEN ToolFail(wr.err, "", calls, wr.fs)
    ELSE [status |-> "ok", err |-> "", msg |-> "Success. File saved as",
          file |-> file, audio |-> audio, calls |-> calls, fs |-> wr.fs]

\* lines 142-159, output_path being resolved and the file named
Synthesize(output_path, output_file_name, f, calls, convert, up) ==
    IF ~convert.ok THEN ToolFail("ApiError", "", calls, f)
    ELSE IF up.err # "" THEN ToolFail(up.err, "", calls, up.fs)
    ELSE StoreAudio(Join(output_path, output_file_name), convert.audio, calls,
                    WriteBinary(up.fs, Join(output_path, output_file_name),
                                convert.audio))

\* lines 133-159, the voice being settled
Produce(text, lookup, t, api, op) ==
    IF op.status # "ok"
    THEN ToolFail(op.err, op.msg, lookup, op.fs)
    ELSE Synthesize(op.value,
                    make_output_file(<<"t", "t", "s">>, text, op.value, Mp3,
                            FALSE, t),
                    op.fs, lookup \o <<"text_to_speech.convert">>,
                    api.convert, Mkdir(op.fs, Parent(op.value)))

\* text_to_speech(text, voice_name, output_directory, voice_id) at time t
\* on the filesystem f, base being the module's base_path; api tells what
\* the remote service answers: get and search for the voice lookups,
\* convert for the synthesis (the audio bytes, or no answer but an error)
text_to_speech(text, voice_name, output_directory, voice_id, base, f, t, api) ==
    LET lookup == IF voice_id # "None" THEN <<"voices.get">>
                  ELSE IF voice_name # "None" THEN <<"voices.search">>
                  ELSE <<>>
    IN  IF text = <<>>
        THEN ToolFail("ElevenLabsMcpError", "Text is required.", <<>>, f)
        ELSE IF voice_id # "None" /\ voice_name # "None"
        THEN ToolFail("ElevenLabsMcpError",
                      "voice_id and voice_name cannot both be provided.",
                      <<>>, f)
        ELSE IF voice_id # "None" /\ api.get = "raise"
        THEN ToolFail("ApiError", "", lookup, f)
        ELSE IF voice_id = "None" /\ voice_name # "None" /\ api.search = "raise"
        THEN ToolFail("ApiError", "", lookup, f)
        ELSE IF voice_id = "None" /\ voice_name # "None" /\ api.search = "none"
        THEN ToolFail("ElevenLabsMcpError", "No voices found with that name.",
                      lookup, f)
        ELSE IF voice_id = "None" /\ voice_name # "None" /\ api.search = "other"
        THEN ToolFail("ElevenLabsMcpError", "Voice with name does not exist.",
                      lookup, f)
        ELSE Produce(text, lookup, t, api,
                     make_output_path(output_directory, base, f))

ToolTexts ==
    {<<>>, <<"H", "i", SP, "t", "h", "e", "r", "e">>,
     <<"H", "i", SP, "t", "h", "x">>}

Converts ==
    {[ok |-> TRUE, audio |-> a] : a \in {<<1>>, <<2>>}}
        \cup {[ok |-> FALSE, audio |-> <<>>]}

\* the answers of the remote service that the call can tell apart: those
\* to the requests it gets to make
Answers(text, voice_name, voice_id) ==
    IF text = <<>> \/ (voice_id # "None" /\ voice_name # "None")
    THEN [get : {"ok"}, search : {"match"}, convert : {[ok |-> FALSE,
            audio |-> <<>>]}]
    ELSE IF voice_id # "None"
    THEN [get : {"ok"}, search : {"match"}, convert : Converts]
            \cup [get : {"raise"}, search : {"match"},
                    convert : {[ok |-> FALSE, audio |-> <<>>]}]
    ELSE IF voice_name # "None"
    THEN [get : {"ok"}, search : {"match"}, convert : Converts]
            \cup [get : {"ok"}, search : {"other", "none", "raise"},
                  convert : {[ok |-> FALSE, audio |-> <<>>]}]
    ELSE [get : {"ok"}, search : {"match"}, convert : Converts]

\* the tools start with /h writable and a read-only /h/ro
ToolFs ==
    (<<>> :> Dir(FALSE)) @@ (Home :> Dir(TRUE))
        @@ (Home \o <<RoDir>> :> Dir(FALSE))

Tick ==
    /\ now < MaxClock
    /\ now' = now + 1
    /\ UNCHANGED <<fs, tmp, linesep, envBase, remote, last, written, cloud>>

MakeOutputFile ==
    \E tool \in {<<"t", "t", "s">>, <<"s", "t", "t">>},
       text \in ToolTexts \cup {<<"a", SLASH, "b">>, <<"a", SP>>,
                                <<"v", US, "A", "B", "C", "1", "2", "3">>},
       output_path \in {[abs |-> TRUE, parts |-> Home \o <<Desktop>>],
                        [abs |-> FALSE, parts |-> <<RDir>>]},
       extension \in {Mp3, <<"t", "x", "t">>}, full_id \in BOOLEAN :
        /\ last' = [op |-> "make_output_file", tool |-> tool, text |-> text,
                    output_path |-> output_path, extension |-> extension,
                    full_id |-> full_id, at |-> now,
                    value |-> make_output_file(tool, text, output_path,
                                               extension, full_id, now)]
        /\ UNCHANGED <<fs, tmp, linesep, envBase, now, remote, written, cloud>>

\* the latest two writes, oldest first
Latest(log, entry) ==
    IF log = <<>> THEN <<entry>> ELSE <<log[Len(log)], entry>>

TextToSpeech ==
    \E text \in ToolTexts, voice_name \in {"None", "Ann"},
       voice_id \in {"None", "v1"},
       output_directory \in {NoneStr, Str(TRUE, Home \o <<RoDir, RDir>>)} :
      \E api \in Answers(text, voice_name, voice_id) :
        \E r \in {text_to_speech(text, voice_name, output_directory, voice_id,
                                 envBase, fs, now, api)} :
            /\ fs' = r.fs
            /\ remote' = r.calls
            /\ last' = [op |-> "text_to_speech", text |-> text,
                        voice_name |-> voice_name, voice_id |-> voice_id,
                        output_directory |-> output_directory,
                        status |-> r.status, err |-> r.err, msg |-> r.msg,
                        file |-> r.file, audio |-> r.audio, at |-> now]
            /\ written' = IF r.status = "ok"
                          THEN Latest(written, [text |-> text, file |-> r.file,
                                                audio |-> r.audio, at |-> now])
                          ELSE written
            /\ UNCHANGED <<tmp, linesep, envBase, now, cloud>>

\* the remote service with no document and an agent that knows nothing
NoCloud == [docs |-> <<>>, kb |-> <<>>]

(***************************************************************************)
(* The path resolver on its own; the input-file validator on its own       *)
(***************************************************************************)
InitPath ==
    /\ fs \in {StartFs(hw, d) : hw \in BOOLEAN, d \in BOOLEAN}
    /\ envBase = NoneStr
    /\ tmp = EmptyDir
    /\ linesep = <<LF>>
    /\ now = 0
    /\ remote = <<>>
    /\ cloud = NoCloud
    /\ written = <<>>
    /\ last = [op |-> "none"]

NextPath == MakeOutputPath

SpecPath == InitPath /\ [][NextPath]_vars

InitInput ==
    /\ fs \in {StartFs(TRUE, d) : d \in BOOLEAN}
    /\ envBase \in {NoneStr, Str(FALSE, <<>>), Str(TRUE, Cwd),
                    Str(TRUE, Home \o <<RoDir>>)}
    /\ tmp = EmptyDir
    /\ linesep = <<LF>>
    /\ now = 0
    /\ remote = <<>>
    /\ cloud = NoCloud
    /\ written = <<>>
    /\ last = [op |-> "none"]

NextInput == HandleInputFile

SpecInput == InitInput /\ [][NextInput]_vars

InitTool ==
    /\ fs = ToolFs
    /\ envBase = NoneStr
    /\ tmp = EmptyDir
    /\ linesep = <<LF>>
    /\ now = 0
    /\ remote = <<>>
    /\ cloud = NoCloud
    /\ written = <<>>
    /\ last = [op |-> "none"]

NextTool == Tick \/ TextToSpeech

SpecTool == InitTool /\ [][NextTool]_vars

NextName == Tick \/ MakeOutputFile

SpecName == InitTool /\ [][NextName]_vars

(***************************************************************************)
(* The spooler on its own                                                  *)
(***************************************************************************)

InitText ==
    /\ tmp \in {[n \in {old} |-> <<97>>] : old \in TmpNames}
    /\ linesep \in {<<LF>>, <<CR, LF>>}
    /\ fs = [p \in {<<>>} |-> [kind |-> "dir", w |-> TRUE, data |-> <<>>]]
    /\ envBase = NoneStr
    /\ now = 0
    /\ remote = <<>>
    /\ cloud = NoCloud
    /\ written = <<>>
    /\ last = [op |-> "none"]

NextText == HandleLargeText

SpecText == InitText /\ [][NextText]_vars

HasCR(s) == \E i \in 1..Len(s) : s[i] = CR

Spooled == last.op = "handle_large_text" /\ Len(last.text) > last.max_length

\* the call returned a reference naming exactly one newly created file
\* which, read back, yields `text`
ReferenceTo(text) ==
    /\ last.status = "ok"
    /\ last.value.kind = "reference"
    /\ DOMAIN tmp \ DOMAIN last.before = {last.value.path}
    /\ \A n \in DOMAIN last.before : tmp[n] = last.before[n]
    /\ ReadText(tmp[last.value.path]) = text

\* C1 as stated: for every text with len(text) > max_length,
\* handle_large_text returns a reference message naming exactly one newly
\* created temporary file, and reading the file back yields the text.
C1_AsStated == Spooled => ReferenceTo(last.text)

\* C1, amended: the same for every text that UTF-8 can encode (no lone
\* surrogate) and that holds no carriage return, the file being read back
\* as UTF-8 text with universal newlines; where os.linesep is "\n" the
\* file's bytes are the text's UTF-8 encoding, carriage returns included.
C1_Spooled ==
    /\ (Spooled /\ Encodable(last.text) /\ ~HasCR(last.text))
            => ReferenceTo(last.text)
    /\ (Spooled /\ Encodable(last.text) /\ linesep = <<LF>>)
            => /\ last.status = "ok"
               /\ last.value.kind = "reference"
               /\ Utf8Decode(tmp[last.value.path]) = last.text

C1_Witness ==
    /\ Spooled
    /\ Encodable(last.text)
    /\ ~HasCR(last.text)
    /\ \E i \in 1..Len(last.text) : last.text[i] = LF
    /\ linesep = <<CR, LF>>
    /\ DOMAIN last.before # {}
    /\ last.value.kind = "reference"

\* C2: for every text with len(text) <= max_length (equality included)
\* handle_large_text returns the text unchanged and creates no temporary
\* file.
C2_Unchanged ==
    (last.op = "handle_large_text" /\ Len(last.text) <= last.max_length)
        => /\ last.status = "ok"
           /\ last.value.kind = "text"
           /\ last.value.text = last.text
           /\ tmp = last.before

C2_Witness ==
    /\ last.op = "handle_large_text"
    /\ Len(last.text) = last.max_length
    /\ Len(last.text) = MaxLen
    /\ last.value.kind = "text"

Validated == last.op = "handle_input_file"

\* C3: handle_input_file never substitutes a different file: it fails
\* whenever the requested path does not exist, similar files found or not;
\* a returned path is the requested path and is a regular file; similar
\* files appear only inside the error.
C3_NoSubstitution ==
    Validated =>
        /\ ~Exists(fs, PathOf(last.file_path)) => last.status = "raise"
        /\ last.status = "ok" =>
              /\ last.value = PathOf(last.file_path)
              /\ IsFile(fs, last.value)
        /\ last.suggestions # <<>> =>
              /\ last.status = "raise"
              /\ last.err = "ElevenLabsMcpError"
              /\ last.value = NoPath

C3_Witness ==
    /\ Validated
    /\ ~Exists(fs, PathOf(last.file_path))
    /\ last.suggestions # <<>>
    /\ IsFile(fs, last.suggestions[1])

\* C4: every path a successful handle_input_file returns is absolute,
\* whatever the input path and the base path.
C4_AbsoluteResult == (Validated /\ last.status = "ok") => last.value.abs

\* C5: with no base path configured handle_input_file fails with the
\* configuration error for every relative path, a file existing at it
\* relative to the working directory or not, and before any existence
\* check or similarity search.
C5_RelativeRefused ==
    (Validated /\ ~last.file_path.abs /\ envBase \in {NoneStr, Str(FALSE, <<>>)})
        => /\ last.status = "raise"
           /\ last.err = "ElevenLabsMcpError"
           /\ last.msg = "must be an absolute path"
           /\ last.probes = <<>>
           /\ last.suggestions = <<>>

C5_Witness ==
    /\ Validated
    /\ ~last.file_path.abs
    /\ envBase = Str(FALSE, <<>>)
    /\ IsFile(fs, PathOf(last.file_path))
    /\ last.msg = "must be an absolute path"

Resolved == last.op = "make_output_path"

\* C6: every path make_output_path returns is absolute, for every
\* output_directory and base_path.
C6_AbsoluteResult == (Resolved /\ last.status = "ok") => last.value.abs

TildeExpanded(s) ==
    IF ~s.abs /\ Len(s.parts) > 0 /\ s.parts[1] = Tilde
    THEN [abs |-> TRUE, parts |-> <<HomeDir>> \o Tail(s.parts)]
    ELSE [abs |-> s.abs, parts |-> s.parts]

\* the three rules: no directory; a relative directory under a configured
\* base path; anything else
Target(od, bp) ==
    CASE od = NoneStr -> [abs |-> TRUE, parts |-> <<HomeDir, Desktop>>]
      [] od # NoneStr /\ ~od.abs /\ bp \notin {NoneStr, Str(FALSE, <<>>)} ->
            [abs |-> TildeExpanded(bp).abs,
             parts |-> TildeExpanded(bp).parts \o od.parts]
      [] OTHER -> TildeExpanded(od)

\* C7: make_output_path takes <home>/Desktop for no directory, the
\* tilde-expanded base path joined with the directory for a relative
\* directory under a configured base path, and the tilde-expanded
\* directory otherwise; on every successful return the returned directory
\* is that target and exists.
C7_Target ==
    (Resolved /\ last.status = "ok")
        => /\ last.value = Target(last.output_directory, last.base_path)
           /\ IsDir(fs, last.value)

C7_Witness ==
    /\ Resolved
    /\ last.status = "ok"
    /\ ~last.output_directory.abs
    /\ last.output_directory.tag = "str"
    /\ last.base_path = Str(FALSE, <<Tilde, WorkDir>>)
    /\ ~Exists(last.before, last.value)

\* what the writability check answers before the call: the target itself
\* if it exists, its immediate parent otherwise
CheckFails(f, t) ==
    IF Locate(t) \in DOMAIN f
    THEN ~f[Locate(t)].w
    ELSE \/ Locate(Parent(t)) \notin DOMAIN f
         \/ ~f[Locate(Parent(t))].w

\* C8: make_output_path fails whenever the writability check fails, and
\* then creates no directory: the filesystem is as it was.  It never
\* returns a directory that failed the check.
C8_Unwritable ==
    (Resolved /\ CheckFails(last.before,
                            Target(last.output_directory, last.base_path)))
        => /\ last.status = "raise"
           /\ last.err = "ElevenLabsMcpError"
           /\ last.msg = "is not writeable"
           /\ fs = last.before

C8_Witness ==
    /\ Resolved
    /\ last.status = "raise"
    /\ last.msg = "is not writeable"
    /\ Exists(last.before, Target(last.output_directory, last.base_path))
    /\ last.before[Home].w

\* the entries the call added to the filesystem
Created == DOMAIN fs \ DOMAIN last.before

\* C23: make_output_path creates at most one new directory level: for a
\* target that does not exist and whose immediate parent does not exist
\* either it fails with the not-writeable error, even when a higher
\* ancestor exists and is writable, and the filesystem is as it was; the
\* parents=True creation never creates a missing parent.
C23_OneLevel ==
    Resolved =>
        LET t == Target(last.output_directory, last.base_path)
        IN  /\ Cardinality(Created) <= 1
            /\ \A a \in Created :
                  /\ a = Locate(t)
                  /\ Locate(Parent(t)) \in DOMAIN last.before
            /\ (~Exists(last.before, t) /\ ~Exists(last.before, Parent(t)))
                  => /\ last.status = "raise"
                     /\ last.err = "ElevenLabsMcpError"
                     /\ last.msg = "is not writeable"
                     /\ fs = last.before

C23_Witness ==
    /\ Resolved
    /\ last.status = "raise"
    /\ last.msg = "is not writeable"
    /\ LET t == Target(last.output_directory, last.base_path)
       IN  /\ ~Exists(last.before, t)
           /\ ~Exists(last.before, Parent(t))
           /\ Parent(Parent(t)) = [abs |-> TRUE, parts |-> Home]
    /\ last.before[Home].w
    /\ last.before[Home].kind = "dir"

RECURSIVE JoinSlash(_)
JoinSlash(parts) ==
    IF parts = <<>> THEN <<>>
    ELSE IF Len(parts) = 1 THEN parts[1]
    ELSE parts[1] \o <<SLASH>> \o JoinSlash(Tail(parts))

\* the content component: the whole fragment, or its first 5 characters,
\* spaces then turned into underscores
Content(text, full_id) ==
    LET cut == IF full_id \/ Len(text) <= 5 THEN text
               ELSE [i \in 1..5 |-> text[i]]
    IN  [i \in 1..Len(cut) |-> IF cut[i] = " " THEN "_" ELSE cut[i]]

Named == last.op = "make_output_file"

\* C9: make_output_file returns
\* output_path / "<tag>_<content>_<timestamp>.<extension>", content being
\* the whole fragment when full_id is set and its first 5 characters
\* otherwise, spaces replaced by underscores after the cut; it touches no
\* file.
C9_FileName ==
    Named =>
        LET name == last.tool \o <<"_">> \o Content(last.text, last.full_id)
                        \o <<"_">> \o strftime(last.at) \o <<".">>
                        \o last.extension
            n == Len(last.output_path.parts)
        IN  /\ last.value.abs = last.output_path.abs
            /\ Len(last.value.parts) > n
            /\ SubSeq(last.value.parts, 1, n) = last.output_path.parts
            /\ JoinSlash(SubSeq(last.value.parts, n + 1,
                                Len(last.value.parts))) = name
            /\ fs = ToolFs

C9_Witness ==
    /\ Named
    /\ last.text = <<"H", "i", " ", "t", "h", "e", "r", "e">>
    /\ ~last.full_id
    /\ SubSeq(NameOf(last.value), 1, 10)
            = <<"t", "t", "s", "_", "H", "i", "_", "t", "h", "_">>

Files == {a \in DOMAIN fs : fs[a].kind = "file"}

\* C10: collisions are not deduplicated: two text_to_speech invocations
\* in the same clock second whose texts give the same content component,
\* writing to the same directory, get the identical path, and after they
\* wrote in sequence there is one file, holding the second one's bytes
\* only.
C10_Overwrite ==
    /\ (/\ Len(written) = 2
        /\ written[1].at = written[2].at
        /\ Content(written[1].text, FALSE) = Content(written[2].text, FALSE)
        /\ Parent(written[1].file) = Parent(written[2].file))
            => written[1].file = written[2].file
    /\ written # <<>> =>
          /\ IsFile(fs, written[Len(written)].file)
          /\ fs[Locate(written[Len(written)].file)].data
                  = written[Len(written)].audio
    /\ (written # <<>> /\ now = 0) => Cardinality(Files) = 1

C10_Witness ==
    /\ Len(written) = 2
    /\ written[1].at = written[2].at
    /\ written[1].text # written[2].text
    /\ written[1].audio # written[2].audio
    /\ written[1].file = written[2].file
    /\ fs[Locate(written[2].file)].data = written[2].audio
    /\ Cardinality(Files) = 1

(***************************************************************************)
(* The similarity search of handle_input_file, on a directory tree with    *)
(* more candidates than the search keeps.  The initial state draws the     *)
(* call: its arguments, the order os.walk lists the tree in and the scores *)
(* fuzz.token_sort_ratio gives the names; the step applies                 *)
(* handle_input_file to it.                                                *)
(***************************************************************************)
MDir == <<"m">>
SDir == <<"s">>
XMp3 == <<"x", ".", "m", "p", "3">>

\* /h/m holds a.mp3 and n.txt; /h/m/s holds b.mp3 and A.MP3; /h/m/s/t
\* holds c.wav and another n.txt; /h/p.mp3 is a fifo
MediaFs ==
    (<<>> :> Dir(FALSE)) @@ (Home :> Dir(TRUE))
        @@ (Append(Home, <<"p", ".", "m", "p", "3">>)
                :> [kind |-> "special", w |-> TRUE, data |-> <<>>])
        @@ (Home \o <<MDir>> :> Dir(TRUE))
        @@ (Home \o <<MDir, AMp3>> :> File(<<1>>))
        @@ (Home \o <<MDir, NTxt>> :> File(<<2>>))
        @@ (Home \o <<MDir, SDir>> :> Dir(TRUE))
        @@ (Home \o <<MDir, SDir, BMp3>> :> File(<<3>>))
        @@ (Home \o <<MDir, SDir, UMp3>> :> File(<<4>>))
        @@ (Home \o <<MDir, SDir, <<"t">> >> :> Dir(TRUE))
        @@ (Home \o <<MDir, SDir, <<"t">>, <<"c", ".", "w", "a", "v">> >>
                :> File(<<5>>))
        @@ (Home \o <<MDir, SDir, <<"t">>, NTxt>> :> File(<<6>>))

\* the calls of handle_input_file on the tree above, each with what the
\* filesystem and the scorer answer it
InitSuggest ==
    /\ fs = MediaFs
    /\ envBase \in {NoneStr, Str(TRUE, Home)}
    /\ tmp = EmptyDir
    /\ linesep = <<LF>>
    /\ now = 0
    /\ remote = <<>>
    /\ cloud = NoCloud
    /\ written = <<>>
    /\ last \in
            UNION {UNION {
                {[op |-> "request", file_path |-> file_path,
                  audio_content_check |-> audio_content_check,
                  walk |-> walk, ratio |-> ratio] :
                    audio_content_check \in BOOLEAN,
                    ratio \in [{walk[i][Len(walk[i])] : i \in 1..Len(walk)} -> Scores]} :
                walk \in IF Searches(file_path, envBase, MediaFs)
                         THEN Walks(MediaFs, Locate(Parent(PathOf(file_path))))
                         ELSE {<<>>}} :
                file_path \in {Str(TRUE, Home \o <<MDir, XMp3>>),
                               Str(TRUE, Home \o <<MDir, SDir, <<"t">>, XMp3>>),
                               Str(TRUE, Home \o <<MDir, AMp3, XMp3>>),
                               Str(TRUE, Home \o <<MDir, AMp3>>),
                               Str(TRUE, Home \o <<MDir, NTxt>>),
                               Str(TRUE, Home \o <<MDir>>),
                               Str(TRUE, Append(Home, <<"p", ".", "m", "p",
                                                        "3">>)),
                               Str(TRUE, Home \o <<QDir, XMp3>>),
                               Str(FALSE, <<XMp3>>), Str(FALSE, <<MDir>>)}}

ValidateRequest ==
    /\ last.op = "request"
    /\ \E r \in {handle_input_file(last.file_path, last.audio_content_check,
                                   envBase, fs, last.walk, last.ratio)} :
          last' = [op |-> "handle_input_file",
                   file_path |-> last.file_path,
                   audio_content_check |-> last.audio_content_check,
                   status |-> r.status, err |-> r.err, msg |-> r.msg,
                   suggestions |-> r.suggestions, value |-> r.value,
                   probes |-> r.probes,
                   walk |-> last.walk, ratio |-> last.ratio]
    /\ UNCHANGED <<fs, tmp, linesep, envBase, now, remote, written, cloud>>

NextSuggest == ValidateRequest

SpecSuggest == InitSuggest /\ [][NextSuggest]_vars

\* the name ends in one of the recognised extensions, whatever its case
Recognised(name) ==
    \E e \in audio_extensions :
        /\ Len(name) > Len(e)
        /\ LowerStr(SubSeq(name, Len(name) - Len(e) + 1, Len(name))) = e

\* the non-directories below directory d
Under(d) ==
    {a \in DOMAIN fs : /\ Len(a) > Len(d)
                       /\ SubSeq(a, 1, Len(d)) = d
                       /\ fs[a].kind # "dir"}

Score(a) == last.ratio[a[Len(a)]]

\* the call got past the base-path check and found the path missing, its
\* parent being there
MissingWithParent ==
    /\ Validated
    /\ "ratio" \in DOMAIN last
    /\ last.file_path.abs \/ envBase \notin {NoneStr, Str(FALSE, <<>>)}
    /\ ~Exists(fs, PathOf(last.file_path))
    /\ Exists(fs, Parent(PathOf(last.file_path)))

Candidates ==
    {a \in Under(Locate(Parent(PathOf(last.file_path)))) : Score(a) >= 70}

FirstFailure ==
    LET p == PathOf(last.file_path)
    IN  IF ~last.file_path.abs /\ envBase \in {NoneStr, Str(FALSE, <<>>)}
        THEN {"must be an absolute path"}
        ELSE IF Locate(p) \notin DOMAIN fs
        THEN {"does not exist", "does not exist. Did you mean"}
        ELSE IF fs[Locate(p)].kind # "file"
        THEN {"is not a file"}
        ELSE IF last.audio_content_check /\ ~Recognised(NameOf(p))
        THEN {"is not an audio or video file"}
        ELSE {""}

\* C12: handle_input_file applies its checks in a fixed order and reports
\* the first that fails: relative without base path, then existence, then
\* regular file, then the audio/video extension; an existing directory (or
\* other non-regular entry) is reported as "is not a file", never as a
\* wrong file type.
C12_CheckOrder ==
    Validated =>
        /\ last.msg \in FirstFailure
        /\ last.status = (IF last.msg = "" THEN "ok" ELSE "raise")
        /\ last.status = "raise" => last.err = "ElevenLabsMcpError"
        /\ (Exists(fs, PathOf(last.file_path))
                /\ ~IsFile(fs, PathOf(last.file_path)))
              => last.msg # "is not an audio or video file"

C12_Witness ==
    /\ Validated
    /\ IsDir(fs, PathOf(last.file_path))
    /\ last.audio_content_check
    /\ ~Recognised(NameOf(PathOf(last.file_path)))
    /\ last.msg = "is not a file"

Spoke == last.op = "text_to_speech"

\* the errors text_to_speech raises on what it is given and on the
\* filesystem alone
LocalErrors ==
    {"Text is required.", "voice_id and voice_name cannot both be provided.",
     "is not writeable"}

\* C14: in every tool invocation all local validation (parameter checks,
\* input-file validation, output-directory resolution) is settled before
\* any remote API call: no invocation that ends in a local validation
\* error has made a remote call.
C14_LocalFirst ==
    (Spoke /\ last.status = "raise" /\ last.msg \in LocalErrors)
        => remote = <<>>

\* C15: every failure of a tool invocation, local or of the remote API
\* call, surfaces as the single user-facing error kind ElevenLabsMcpError,
\* never as a raw exception of another kind.
C15_SingleKind ==
    (Spoke /\ last.status = "raise") => last.err = "ElevenLabsMcpError"

(***************************************************************************)
(* text_to_voice                                                           *)
(***************************************************************************)
MaxPreviews == 2     \* most previews the remote service answers with

\* the value of a character of the base64 alphabet
B64Val(c) ==
    CASE c = "A" -> 0 [] c = "Q" -> 16 [] c = "g" -> 32 [] OTHER -> 0

\* the bytes of one group of four characters, "=" padding at its end
B64Quad(q) ==
    LET n == B64Val(q[1]) * 262144 + B64Val(q[2]) * 4096
                 + B64Val(q[3]) * 64 + B64Val(q[4])
        pads == Cardinality({i \in 1..4 : q[i] = "="})
    IN  SubSeq(<<n \div 65536, (n \div 256) % 256, n % 256>>, 1, 3 - pads)

\* base64.b64decode(s): binascii.Error unless the characters come in
\* groups of four
b64decode(s) ==
    IF Len(s) % 4 # 0 THEN [err |-> "binascii.Error", bytes |-> <<>>]
    ELSE [err |-> "",
          bytes |-> Flatten([i \in 1..(Len(s) \div 4) |->
                                B64Quad(SubSeq(s, 4 * i - 3, 4 * i))])]

VoiceFail(err, msg, calls, dir, saved, f) ==
    [status |-> "raise", err |-> err, msg |-> msg, calls |-> calls,
     dir |-> dir, saved |-> saved, fs |-> f]

\* lines 785-794: the previews are named, decoded and written one by one
RECURSIVE SavePreviews(_, _, _, _, _)
SavePreviews(previews, output_path, t, saved, f) ==
    IF previews = <<>>
    THEN [status |-> "ok", err |-> "", msg |-> "Success. Files saved at",
          calls |-> <<"text_to_voice.create_previews">>,
          dir |-> output_path, saved |-> saved, fs |-> f]
    ELSE LET preview == Head(previews)
             output_file_name ==
                 make_output_file(<<"v", "o", "i", "c", "e", US, "d", "e", "s",
                         "i", "g", "n">>, preview.generated_voice_id,
                                  output_path, Mp3, TRUE, t)
             audio == b64decode(preview.audio_base_64)
             wr == WriteBinary(f, Join(output_path, output_file_name),
                               audio.bytes)
         IN  IF audio.err # ""
             THEN VoiceFail(audio.err, "",
                            <<"text_to_voice.create_previews">>,
                            output_path, saved, f)
             ELSE IF wr.err # ""
             THEN VoiceFail(wr.err, "", <<"text_to_voice.create_previews">>,
                            output_path, saved, f)
             ELSE SavePreviews(Tail(previews), output_path, t,
                               Append(saved, output_file_name), wr.fs)

\* lines 780-794, the previews being there
StorePreviews(previews, t, op) ==
    IF op.status # "ok"
    THEN VoiceFail(op.err, op.msg, <<"text_to_voice.create_previews">>,
                   NoPath, <<>>, op.fs)
    ELSE SavePreviews(previews, op.value, t, <<>>, op.fs)

\* text_to_voice(voice_description, text, output_directory) at time t on
\* the filesystem f; api is what create_previews answers
text_to_voice(voice_description, output_directory, base, f, t, api) ==
    IF voice_description = <<>>
    THEN VoiceFail("ElevenLabsMcpError", "Voice description is required.",
                   <<>>, NoPath, <<>>, f)
    ELSE IF ~api.ok
    THEN VoiceFail("ApiError", "", <<"text_to_voice.create_previews">>,
                   NoPath, <<>>, f)
    ELSE StorePreviews(api.previews, t,
                       make_output_path(output_directory, base, f))

\* what create_previews may answer a call that gets to make it: a failure,
\* or previews with a voice id that makes a file name and audio that
\* decodes or not, or with a voice id that names a file in a missing
\* directory
PreviewAnswers(voice_description) ==
    IF voice_description = <<>> THEN {[ok |-> FALSE, previews |-> <<>>]}
    ELSE {[ok |-> FALSE, previews |-> <<>>]}
            \cup {[ok |-> TRUE, previews |-> ps] :
                     ps \in SeqsUpTo(
                         {p \in [generated_voice_id :
                                     {<<"v", "1">>, <<"a", SLASH, "b">>},
                                 audio_base_64 :
                                     {<<"A", "Q", "=", "=">>,
                                      <<"A", "g", "=", "=">>, <<"A">>}] :
                             \/ p.generated_voice_id = <<"v", "1">>
                             \/ p.audio_base_64 = <<"A", "Q", "=", "=">>},
                         MaxPreviews)}

TextToVoice ==
    \E voice_description \in {<<>>, <<"d">>},
       output_directory \in {NoneStr, Str(TRUE, Home \o <<RoDir, RDir>>)} :
      \E api \in PreviewAnswers(voice_description) :
        \E r \in {text_to_voice(voice_description, output_directory, envBase,
                                fs, now, api)} :
            /\ fs' = r.fs
            /\ remote' = r.calls
            /\ last' = [op |-> "text_to_voice",
                        voice_description |-> voice_description,
                        output_directory |-> output_directory,
                        status |-> r.status, err |-> r.err, msg |-> r.msg,
                        dir |-> r.dir, saved |-> r.saved]
            /\ UNCHANGED <<tmp, linesep, envBase, now, written, cloud>>

(***************************************************************************)
(* add_knowledge_base_to_agent.  An optional argument is a sequence: <<>>   *)
(* for None, <<v>> for the value v.                                        *)
(***************************************************************************)
MaxDocs == 2         \* most documents the remote service comes to hold

None == <<>>
Some(v) == <<v>>

KbFail(err, msg, calls, id, c) ==
    [status |-> "raise", err |-> err, msg |-> msg, calls |-> calls,
     id |-> id, cloud |-> c]

CreateDocument_lost(c, name, kind) == c

\* documents.create_from_url, documents.create_from_file: the service
\* holds one more document; its id is its rank
CreateDocument(c, name, kind) ==
    [c EXCEPT !.docs = Append(@, [name |-> name, kind |-> kind])]

\* lines 528-542: the agent is fetched, the locator appended to its
\* knowledge base and the agent updated.  `file` is bound only where a
\* file or a text was given.
AttachDocument(agent_id, name, hasFile, id, calls, api, c) ==
    IF ~api.get
    THEN KbFail("ApiError", "", calls \o <<"agents.get">>, id, c)
    ELSE IF ~hasFile
    THEN KbFail("UnboundLocalError", "", calls \o <<"agents.get">>, id, c)
    ELSE IF ~api.update
    THEN KbFail("ApiError", "", calls \o <<"agents.get", "agents.update">>,
                id, c)
    ELSE [status |-> "ok", err |-> "",
          msg |-> "Knowledge base created with ID",
          calls |-> calls \o <<"agents.get", "agents.update">>, id |-> id,
          cloud |-> [c EXCEPT !.kb = Append(@, [type |-> "file",
                                                name |-> name, id |-> id])]]

\* lines 505-542, the count of the arguments being right
StoreDocument(agent_id, name, url, kind, api, c) ==
    LET call == IF url # None THEN "documents.create_from_url"
                ELSE "documents.create_from_file"
    IN  IF ~api.create
        THEN KbFail("ApiError", "", <<call>>, 0, c)
        ELSE AttachDocument(agent_id, name, url = None, Len(c.docs) + 1,
                            <<call>>, api, CreateDocument(c, name, kind))

\* add_knowledge_base_to_agent(agent_id, knowledge_base_name, url,
\* input_file_path, text) with the remote service in state c; api tells
\* which of its requests the service serves
add_knowledge_base_to_agent(agent_id, knowledge_base_name, url, input_file_path, text, env, f, api, c) ==
    LET provided_params ==
            SelectSeq(<<url, input_file_path, text>>, LAMBDA x : x # None)
    IN  IF Len(provided_params) = 0
        THEN KbFail("ElevenLabsMcpError",
                    "Must provide either a URL, a file, or text", <<>>, 0, c)
        ELSE IF Len(provided_params) > 1
        THEN KbFail("ElevenLabsMcpError",
                    "Must provide exactly one of: URL, file, or text",
                    <<>>, 0, c)
        ELSE IF url # None
        THEN StoreDocument(agent_id, knowledge_base_name, url, "url", api, c)
        ELSE IF text # None
        THEN IF ~Encodable(text[1])
             THEN KbFail("UnicodeEncodeError", "", <<>>, 0, c)
             ELSE StoreDocument(agent_id, knowledge_base_name, url, "file",
                                api, c)
        ELSE LET path == handle_input_file(input_file_path[1], FALSE, env, f,
                                           <<>>, <<>>)
             IN  IF path.status # "ok"
                 THEN KbFail(path.err, path.msg, <<>>, 0, c)
                 ELSE StoreDocument(agent_id, knowledge_base_name, url,
                                    "file", api, c)

\* the answers of the remote service that the call can tell apart: a
\* request is made only if the one before it was served, so update tells
\* whether all were
KbAnswers(url, input_file_path, text) ==
    IF Len(url) + Len(input_file_path) + Len(text) # 1
    THEN {[create |-> FALSE, get |-> FALSE, update |-> FALSE]}
    ELSE {a \in [create : BOOLEAN, get : BOOLEAN, update : BOOLEAN] :
             /\ a.get => a.create
             /\ a.update => a.get}

AddKnowledgeBaseToAgent ==
    /\ Len(cloud.docs) < MaxDocs
    /\ \E agent_id \in {"ag"}, knowledge_base_name \in {"kb"},
          url \in {None, Some("u")},
          input_file_path \in {None, Some(Str(TRUE, Home \o <<NTxt>>)),
                               Some(Str(TRUE, Home \o <<QDir, NTxt>>))},
          text \in {None, Some(<<>>), Some(<<"a">>), Some(<<SUR>>)} :
      \E api \in KbAnswers(url, input_file_path, text) :
        \E r \in {add_knowledge_base_to_agent(agent_id, knowledge_base_name,
                      url, input_file_path, text, envBase, fs, api, cloud)} :
            /\ cloud' = r.cloud
            /\ remote' = r.calls
            /\ last' = [op |-> "add_knowledge_base_to_agent",
                        url |-> url, input_file_path |-> input_file_path,
                        text |-> text, served |-> api.update,
                        status |-> r.status, err |-> r.err, msg |-> r.msg,
                        id |-> r.id]
            /\ UNCHANGED <<fs, tmp, linesep, envBase, now, written>>

(***************************************************************************)
(* The tools that leave something behind, one invocation after another     *)
(***************************************************************************)

\* /h is writable and holds n.txt; /h/ro is read-only
InitEffects ==
    /\ fs = ToolFs @@ (Home \o <<NTxt>> :> File(<<2>>))
    /\ envBase = NoneStr
    /\ tmp = EmptyDir
    /\ linesep = <<LF>>
    /\ now = 0
    /\ remote = <<>>
    /\ cloud = NoCloud
    /\ written = <<>>
    /\ last = [op |-> "none"]

NextEffects == TextToVoice \/ AddKnowledgeBaseToAgent

SpecEffects == InitEffects /\ [][NextEffects]_vars

Designed == last.op = "text_to_voice"
Added == last.op = "add_knowledge_base_to_agent"

\* C16: side effects of a tool invocation are not rolled back when a later
\* step of the same invocation fails: the output directory made by
\* make_output_path, the preview files text_to_voice has written already
\* and the document add_knowledge_base_to_agent has created already are
\* all there after the invocation ended in an error.
C16_NoRollback ==
    /\ (Designed /\ last.status = "raise" /\ last.dir # NoPath)
          => /\ IsDir(fs, last.dir)
             /\ \A i \in 1..Len(last.saved) : IsFile(fs, last.saved[i])
    /\ (Added /\ last.status = "raise" /\ last.id # 0)
          => /\ last.id = Len(cloud.docs)
             /\ cloud.docs[last.id].name = "kb"

C16_Witness ==
    /\ Added
    /\ last.status = "raise"
    /\ last.id = MaxDocs
    /\ cloud.kb = <<>>
    /\ \E a \in DOMAIN fs :
          /\ fs[a].kind = "file"
          /\ a[Len(a)][1] = "v"
    /\ IsDir(fs, [abs |-> TRUE, parts |-> Home \o <<Desktop>>])

Provided == Len(last.url) + Len(last.input_file_path) + Len(last.text)

\* C19: add_knowledge_base_to_agent called with exactly one of url,
\* input_file_path or text, all remote calls succeeding, creates the
\* document, appends a locator for it to the agent's knowledge base,
\* updates the agent and returns the success message; called with none or
\* with more than one of them it fails before any remote call.
C19_ExactlyOne ==
    Added =>
        /\ (Provided = 1 /\ last.served)
              => /\ last.status = "ok"
                 /\ last.msg = "Knowledge base created with ID"
                 /\ last.id = Len(cloud.docs)
                 /\ cloud.kb # <<>>
                 /\ cloud.kb[Len(cloud.kb)].id = last.id
                 /\ remote[Len(remote)] = "agents.update"
        /\ Provided # 1
              => /\ last.status = "raise"
                 /\ last.err = "ElevenLabsMcpError"
                 /\ remote = <<>>

(***************************************************************************)
(* parse_conversation_transcript.  An attribute of a transcript entry is   *)
(* absent, None, a string or an integer (kept as its decimal digits).      *)
(***************************************************************************)
Absent == [tag |-> "absent", v |-> <<>>]
PyNone == [tag |-> "None", v |-> <<>>]
StrOf(chars) == [tag |-> "str", v |-> chars]

\* getattr(entry, name, default)
getattr(a, default) == IF a.tag = "absent" THEN default ELSE a

\* bool(a)
AttrTruthy(a) ==
    \/ a.tag = "str" /\ a.v # <<>>
    \/ a.tag = "int" /\ a.v # <<"0">>

\* the f-string rendering of an attribute
Fmt(a) == IF a.tag = "None" THEN <<"N", "o", "n", "e">> ELSE a.v

NoTranscript ==
    <<"N", "o", SP, "t", "r", "a", "n", "s", "c", "r", "i", "p", "t", SP,
      "a", "v", "a", "i", "l", "a", "b", "l", "e">>

\* lines 179-186: one line of the transcript
TranscriptLine(entry) ==
    LET speaker == getattr(entry.role,
                           StrOf(<<"U", "n", "k", "n", "o", "w", "n">>))
        text == getattr(entry.message, getattr(entry.text, StrOf(<<>>)))
        timestamp == getattr(entry.timestamp, PyNone)
    IN  IF AttrTruthy(timestamp)
        THEN <<"[">> \o Fmt(timestamp) \o <<"]", SP>> \o Fmt(speaker)
                 \o <<":", SP>> \o Fmt(text)
        ELSE Fmt(speaker) \o <<":", SP>> \o Fmt(text)

\* sep.join(parts)
RECURSIVE StrJoin(_, _)
StrJoin(sep, parts) ==
    IF parts = <<>> THEN <<>>
    ELSE IF Len(parts) = 1 THEN parts[1]
    ELSE parts[1] \o sep \o StrJoin(sep, Tail(parts))

\* lines 177-190: the formatted transcript
FormatTranscript(transcript_entries) ==
    IF transcript_entries = <<>> THEN NoTranscript
    ELSE StrJoin(<<LF>>, [i \in 1..Len(transcript_entries) |->
                             TranscriptLine(transcript_entries[i])])

\* parse_conversation_transcript(transcript_entries, max_length) with the
\* temporary directory holding dir and the new file created under `name`.
\* The transcript goes
\* through a SpooledTemporaryFile first, which stays in memory and whose
\* encoder refuses what the named file's encoder would.
parse_conversation_transcript(transcript_entries, max_length, dir, name, sep) ==
    LET transcript == FormatTranscript(transcript_entries)
    IN
    IF TooLong(transcript, max_length)
    THEN LET w == FileWrite(transcript, sep)
         IN  IF w.ok
             THEN [status |-> "ok", err |-> "",
                   value |-> [kind |-> "reference",
                              head |-> Capitalize(<<"t", "r", "a", "n", "s",
                                                    "c", "r", "i", "p", "t">>),
                              path |-> name,
                              tail |-> <<"t", "r", "a", "n", "s",
                                         "c", "r", "i", "p", "t">>],
                   flag |-> TRUE, dir |-> dir @@ (name :> w.bytes)]
             ELSE [status |-> "raise", err |-> "UnicodeEncodeError",
                   value |-> [kind |-> "none"], flag |-> FALSE, dir |-> dir]
    ELSE [status |-> "ok", err |-> "",
          value |-> [kind |-> "text", text |-> transcript],
          flag |-> FALSE, dir |-> dir]

Entry(role, message, text, timestamp) ==
    [role |-> role, message |-> message, text |-> text,
     timestamp |-> timestamp]

\* the transcripts: none, "u: a", "Unknown: ", "u: a" then "[5] u: b",
\* "u: None" then a message with a carriage return, a message with a lone
\* surrogate; the limits are around the lengths of "u: a" and of "No
\* transcript available"
ParseConversationTranscript ==
    \E transcript_entries \in
           {<<>>,
            <<Entry(StrOf(<<"u">>), StrOf(<<"a">>), Absent, Absent)>>,
            <<Entry(Absent, Absent, Absent, [tag |-> "int", v |-> <<"0">>])>>,
            <<Entry(StrOf(<<"u">>), StrOf(<<"a">>), Absent, Absent),
              Entry(StrOf(<<"u">>), Absent, StrOf(<<"b">>),
                    [tag |-> "int", v |-> <<"5">>])>>,
            <<Entry(StrOf(<<"u">>), PyNone, StrOf(<<"b">>), PyNone),
              Entry(StrOf(<<"u">>), StrOf(<<CR>>), Absent, Absent)>>,
            <<Entry(StrOf(<<"u">>), StrOf(<<SUR>>), Absent, Absent)>>},
       max_length \in {3, 4, 22, 23},
       name \in FreshNames(tmp) :
        \E r \in {parse_conversation_transcript(transcript_entries,
                                                max_length, tmp, name,
                                                linesep)} :
            /\ tmp' = r.dir
            /\ last' = [op |-> "parse_conversation_transcript",
                        transcript_entries |-> transcript_entries,
                        text |-> FormatTranscript(transcript_entries),
                        max_length |-> max_length,
                        status |-> r.status, err |-> r.err,
                        value |-> r.value, flag |-> r.flag, before |-> tmp]
            /\ UNCHANGED <<fs, linesep, envBase, now, remote, written, cloud>>

(***************************************************************************)
(* The two spoolers, one call after another, in a temporary directory      *)
(* that holds the file of an earlier overflow                              *)
(***************************************************************************)
NextSpool == HandleLargeText \/ ParseConversationTranscript

SpecSpool == InitText /\ [][NextSpool]_vars

Parsed == last.op = "parse_conversation_transcript"

Overflowed ==
    /\ last.op \in {"handle_large_text", "parse_conversation_transcript"}
    /\ Len(last.text) > last.max_length

NewFiles == DOMAIN tmp \ DOMAIN last.before

EarlierKept ==
    \A n \in DOMAIN last.before :
        n \in DOMAIN tmp /\ tmp[n] = last.before[n]

\* C17 as stated: after any sequence of handle_large_text and
\* parse_conversation_transcript calls every temporary file of an earlier
\* overflow is still there with its content: each overflowing call adds
\* exactly one file under a name distinct from all earlier ones, and no
\* call deletes or rewrites an earlier file.
C17_AsStated ==
    /\ last.op \in {"handle_large_text", "parse_conversation_transcript"}
          => EarlierKept
    /\ Overflowed => Cardinality(NewFiles) = 1

\* C17, amended: no call deletes or rewrites an earlier file; each
\* overflowing call that returns has added exactly one file under a name
\* distinct from all earlier ones; an overflowing call that fails on a
\* text UTF-8 cannot encode has added an empty file (handle_large_text) or
\* none (parse_conversation_transcript); a call that does not overflow
\* adds none.
C17_Persistent ==
    last.op \in {"handle_large_text", "parse_conversation_transcript"} =>
        /\ EarlierKept
        /\ (Overflowed /\ last.status = "ok") => Cardinality(NewFiles) = 1
        /\ (Overflowed /\ last.status = "raise") =>
              /\ ~Encodable(last.text)
              /\ IF Parsed THEN NewFiles = {}
                 ELSE /\ Cardinality(NewFiles) = 1
                      /\ \A n \in NewFiles : tmp[n] = <<>>
        /\ ~Overflowed => NewFiles = {}

C17_Witness ==
    /\ Parsed
    /\ Overflowed
    /\ last.status = "ok"
    /\ DOMAIN last.before # {}
    /\ Cardinality(DOMAIN tmp) = 2
    /\ \E n \in DOMAIN last.before : tmp[n] = <<97>>

\* the text a file's bytes stand for: os.linesep written for each "\n"
\* is taken back
RECURSIVE Untranslate(_, _)
Untranslate(s, sep) ==
    IF s = <<>> THEN <<>>
    ELSE IF Len(sep) = 2 /\ Len(s) >= 2 /\ s[1] = sep[1] /\ s[2] = sep[2]
         THEN <<LF>> \o Untranslate(Tail(Tail(s)), sep)
         ELSE <<Head(s)>> \o Untranslate(Tail(s), sep)

PageCap == 100

page_size_raw(page_size) == page_size

\* line 658: min(page_size, 100)
page_size_sent(page_size) == IF page_size < PageCap THEN page_size ELSE PageCap

\* str(n) of a natural number
RECURSIVE Decimal(_)
Decimal(n) ==
    IF n < 10 THEN <<Digits[n + 1]>>
    ELSE Decimal(n \div 10) \o <<Digits[(n % 10) + 1]>>

\* datetime.fromtimestamp(secs).strftime("%Y-%m-%d %H:%M:%S") for a time
\* within 2024-01-01, the server's clock being set to UTC
StartTime(secs) ==
    LET t == secs - 1704067200
    IN  <<"2", "0", "2", "4", "-", "0", "1", "-", "0", "1", SP>>
            \o TwoDigits(t \div 3600) \o <<":">> \o TwoDigits((t \div 60) % 60)
            \o <<":">> \o TwoDigits(t % 60)

ConversationList ==
    <<"c", "o", "n", "v", "e", "r", "s", "a", "t", "i", "o", "n", SP, "l",
    "i", "s", "t">>
NoConversations ==
    <<"N", "o", SP, "c", "o", "n", "v", "e", "r", "s", "a", "t", "i", "o",
    "n", "s", SP, "f", "o", "u", "n", "d", ".">>
ListFailed ==
    <<"F", "a", "i", "l", "e", "d", SP, "t", "o", SP, "l", "i", "s", "t",
    SP, "c", "o", "n", "v", "e", "r", "s", "a", "t", "i", "o", "n", "s">>

\* lines 678-684: the seven lines of one conversation
ConvInfo(conv) ==
    <<"C", "o", "n", "v", "e", "r", "s", "a", "t", "i", "o", "n", SP, "I",
    "D", ":", SP>> \o conv.conversation_id
    \o <<LF, "S", "t", "a", "t", "u", "s", ":", SP>> \o conv.status
    \o <<LF, "A", "g", "e", "n", "t", ":", SP>>
    \o (IF AttrTruthy(conv.agent_name) THEN Fmt(conv.agent_name)
        ELSE <<"N", SLASH, "A">>)
    \o <<SP, "(", "I", "D", ":", SP>> \o conv.agent_id \o <<")">>
    \o <<LF, "S", "t", "a", "r", "t", "e", "d", ":", SP>>
    \o StartTime(conv.start_time_unix_secs)
    \o <<LF, "D", "u", "r", "a", "t", "i", "o", "n", ":", SP>>
    \o Decimal(conv.call_duration_secs)
    \o <<SP, "s", "e", "c", "o", "n", "d", "s">>
    \o <<LF, "M", "e", "s", "s", "a", "g", "e", "s", ":", SP>>
    \o Decimal(conv.message_count)
    \o <<LF, "C", "a", "l", "l", SP, "S", "u", "c", "c", "e", "s", "s", "f",
    "u", "l", ":", SP>>
    \o conv.call_successful

\* lines 690-692
PaginationInfo(response) ==
    <<"S", "h", "o", "w", "i", "n", "g", SP>>
        \o Decimal(Len(response.conversations))
        \o <<SP, "c", "o", "n", "v", "e", "r", "s", "a", "t", "i", "o", "n",
        "s">>
        \o (IF response.has_more
            THEN <<SP, "(", "m", "o", "r", "e", SP, "a", "v", "a",
                     "i", "l", "a", "b", "l", "e", ",", SP, "n", "e", "x",
                     "t", SP, "c", "u", "r", "s", "o", "r", ":", SP>>
                     \o Fmt(response.next_cursor) \o <<")">>
            ELSE <<>>)

\* lines 688 and 694: the pagination line, a blank line and the
\* conversations, a blank line between two of them
FullText(response) ==
    PaginationInfo(response) \o <<LF, LF>>
        \o StrJoin(<<LF, LF>>, [i \in 1..Len(response.conversations) |->
                                   ConvInfo(response.conversations[i])])

ListFail(dir) ==
    [status |-> "raise", err |-> "ElevenLabsMcpError", msg |-> ListFailed,
     value |-> [kind |-> "none"], dir |-> dir]

\* lines 700-703: the pagination line put in front of what
\* handle_large_text gave back when that is not the list itself
PrependPagination(pagination_info, full_text, h) ==
    IF h.status = "raise" THEN ListFail(h.dir)
    ELSE IF h.value # [kind |-> "text", text |-> full_text]
    THEN [status |-> "ok", err |-> "", msg |-> <<>>,
          value |-> [kind |-> "prefixed",
                     prefix |-> pagination_info \o <<LF, LF>>,
                     rest |-> h.value],
          dir |-> h.dir]
    ELSE [status |-> "ok", err |-> "", msg |-> <<>>,
          value |-> h.value, dir |-> h.dir]

\* lines 697-703
SpoolList(pagination_info, full_text, max_length, dir, name, sep) ==
    PrependPagination(pagination_info, full_text,
                      handle_large_text(full_text, max_length,
                                        ConversationList, dir, name, sep))

\* list_conversations(page_size, max_length) with the service answering
\* `response` to the listing; the filters are passed on as they are
list_conversations(page_size, max_length, response, dir, name, sep) ==
    LET sent == page_size_sent(page_size)
        r == IF response.kind = "raise" THEN ListFail(dir)
             ELSE IF response.conversations = <<>>
             THEN [status |-> "ok", err |-> "", msg |-> <<>>,
                   value |-> [kind |-> "text", text |-> NoConversations],
                   dir |-> dir]
             ELSE SpoolList(PaginationInfo(response), FullText(response),
                            max_length, dir, name, sep)
    IN  r @@ [sent |-> sent]

Conversation(id, name, duration, count) ==
    [conversation_id |-> id, status |-> <<"d", "o", "n", "e">>,
     agent_name |-> name, agent_id |-> <<"a">>,
     start_time_unix_secs |-> 1704067261, call_duration_secs |-> duration,
     message_count |-> count,
     call_successful |-> <<"s", "u", "c", "c", "e", "s", "s">>]

Listing(conversations, has_more, next_cursor) ==
    [kind |-> "ok", conversations |-> conversations, has_more |-> has_more,
     next_cursor |-> next_cursor]

\* what the service may answer: a failure, no conversation, one with more
\* to come (196 characters), two (301), one whose agent name is empty
\* (162), one whose agent name UTF-8 cannot encode (160); the limits are
\* around these lengths
ListConversations ==
    \E page_size \in {-3, 100, 101}, max_length \in {159, 162, 195, 196},
       response \in
           {[kind |-> "raise"],
            Listing(<<>>, FALSE, PyNone),
            Listing(<<Conversation(<<"c", "1">>, PyNone, 1, 2)>>,
                    TRUE, StrOf(<<"n", "1">>)),
            Listing(<<Conversation(<<"c", "1">>, PyNone, 1, 2),
                      Conversation(<<"c", "2">>, StrOf(<<"A", "l">>), 12, 0)>>,
                    FALSE, PyNone),
            Listing(<<Conversation(<<"c", "3">>, StrOf(<<>>), 1, 2)>>,
                    FALSE, PyNone),
            Listing(<<Conversation(<<"c", "4">>, StrOf(<<SUR>>), 1, 2)>>,
                    FALSE, PyNone)},
       name \in FreshNames(tmp) :
        \E r \in {list_conversations(page_size, max_length, response,
                                     tmp, name, linesep)} :
            /\ tmp' = r.dir
            /\ remote' = <<"conversations.list">>
            /\ last' = [op |-> "list_conversations",
                        page_size |-> page_size, max_length |-> max_length,
                        response |-> response, sent |-> r.sent,
                        status |-> r.status, err |-> r.err, msg |-> r.msg,
                        value |-> r.value, before |-> tmp]
            /\ UNCHANGED <<fs, linesep, envBase, now, written, cloud>>

NextList == ListConversations

SpecList == InitText /\ [][NextList]_vars

Listed == last.op = "list_conversations"

HasList ==
    /\ Listed
    /\ last.response.kind = "ok"
    /\ last.response.conversations # <<>>

\* the pagination line, a blank line and the reference message to the one
\* file this call added
PaginationThenReference ==
    /\ last.status = "ok"
    /\ last.value.kind = "prefixed"
    /\ last.value.prefix = PaginationInfo(last.response) \o <<LF, LF>>
    /\ last.value.rest.kind = "reference"
    /\ last.value.rest.head = Capitalize(ConversationList)
    /\ NewFiles = {last.value.rest.path}

ListReturned ==
    /\ last.status = "ok"
    /\ last.value = [kind |-> "text", text |-> FullText(last.response)]
    /\ NewFiles = {}

\* C20 as stated: list_conversations returns the full formatted list (the
\* pagination line once, then the conversations) when its length is at
\* most max_length; when it is longer the result is the pagination line
\* followed by the spool reference message; the page size sent to the
\* service never exceeds 100.
C20_AsStated ==
    /\ Listed => last.sent <= PageCap
    /\ HasList =>
          IF Len(FullText(last.response)) <= last.max_length
          THEN ListReturned
          ELSE PaginationThenReference

\* C20, amended: as stated for a list that UTF-8 can encode, the file then
\* holding the full list; a longer list that UTF-8 cannot encode makes the
\* call fail with "Failed to list conversations" and leaves an empty
\* temporary file; with no conversation the answer is "No conversations
\* found." whatever max_length is.
C20_Paged ==
    /\ Listed => last.sent <= PageCap
    /\ Listed => (last.sent = last.page_size \/ last.sent = PageCap)
    /\ HasList =>
          IF Len(FullText(last.response)) <= last.max_length
          THEN ListReturned
          ELSE IF Encodable(FullText(last.response))
          THEN /\ PaginationThenReference
               /\ tmp[last.value.rest.path]
                      = Utf8Encode(TranslateOut(FullText(last.response),
                                                linesep))
          ELSE /\ last.status = "raise"
               /\ last.err = "ElevenLabsMcpError"
               /\ last.msg = ListFailed
               /\ Cardinality(NewFiles) = 1
               /\ \A n \in NewFiles : tmp[n] = <<>>
    /\ (Listed /\ last.response.kind = "ok"
           /\ last.response.conversations = <<>>) =>
          /\ last.status = "ok"
          /\ last.value = [kind |-> "text", text |-> NoConversations]
          /\ NewFiles = {}

C20_Witness ==
    /\ HasList
    /\ Len(FullText(last.response)) = last.max_length + 1
    /\ PaginationThenReference
    /\ last.response.has_more
    /\ last.page_size > PageCap
    /\ last.sent = PageCap

(***************************************************************************)
(* speech_to_text, in two steps: up to the request sent to the remote      *)
(* service, and from its reply on                                          *)
(***************************************************************************)
\* lines 193-200 of speech_to_text at time t on the filesystem f, env being
\* ELEVENLABS_MCP_BASE_PATH: the call fails, or the request for the
\* transcription leaves with output_file being where the transcript is to
\* go
speech_to_text(input_file_path, save_transcript_to_file, return_transcript_to_client_directly, output_directory, env, f, t) ==
    LET fail(err, msg, probes, g) ==
            [status |-> "raise", err |-> err, msg |-> msg, probes |-> probes,
             output_path |-> NoPath, output_file |-> NoPath, fs |-> g]
        file_path == handle_input_file(input_file_path, TRUE, env, f,
                                       <<>>, <<>>)
        op == make_output_path(output_directory, env, f)
    IN  IF ~save_transcript_to_file /\ ~return_transcript_to_client_directly
        THEN fail("ElevenLabsMcpError",
                  "Must save transcript to file or return it", <<>>, f)
        ELSE IF file_path.status # "ok"
        THEN fail(file_path.err, file_path.msg, file_path.probes, f)
        ELSE IF ~save_transcript_to_file
        THEN [status |-> "call", err |-> "", msg |-> "",
              probes |-> file_path.probes, output_path |-> NoPath,
              output_file |-> NoPath, fs |-> f]
        ELSE IF op.status # "ok"
        THEN fail(op.err, op.msg, file_path.probes, op.fs)
        ELSE [status |-> "call", err |-> "", msg |-> "",
              probes |-> file_path.probes, output_path |-> op.value,
              output_file |->
                  Join(op.value,
                       make_output_file(<<"s", "t", "t">>,
                                        NameOf(file_path.value), op.value,
                                        <<"t", "x", "t">>, FALSE, t)),
              fs |-> op.fs]

\* lines 201-219: the reply of the service, the transcript written in text
\* mode (the file is made, then the encoder may refuse the text) and the
\* answer of the tool
SaveTranscript(api, save_transcript_to_file, return_transcript_to_client_directly, output_file, f, sep) ==
    LET w == FileWrite(api.text, sep)
        wr == WriteBinary(f, output_file, w.bytes)
    IN  IF ~api.ok
        THEN [status |-> "raise", err |-> "ApiError",
              value |-> [kind |-> "none"], fs |-> f]
        ELSE IF save_transcript_to_file /\ wr.err # ""
        THEN [status |-> "raise", err |-> wr.err,
              value |-> [kind |-> "none"], fs |-> wr.fs]
        ELSE IF save_transcript_to_file /\ ~w.ok
        THEN [status |-> "raise", err |-> "UnicodeEncodeError",
              value |-> [kind |-> "none"], fs |-> wr.fs]
        ELSE [status |-> "ok", err |-> "",
              value |-> IF return_transcript_to_client_directly
                        THEN [kind |-> "text", text |-> api.text]
                        ELSE [kind |-> "saved", path |-> output_file],
              fs |-> IF save_transcript_to_file THEN wr.fs ELSE f]

\* a call of the tool: an audio file, a text file, a file in a missing
\* directory, a relative path; the desktop, a relative directory, a new
\* directory next to the audio file, a directory under a missing one
SpeechToText ==
    /\ last.op = "speech_to_text" => last.phase = "done"
    /\ \E input_file_path \in
              {Str(TRUE, Cwd \o <<AMp3>>), Str(TRUE, Cwd \o <<NTxt>>),
               Str(TRUE, Home \o <<QDir, AMp3>>), Str(FALSE, <<AMp3>>)},
          save_transcript_to_file \in BOOLEAN,
          return_transcript_to_client_directly \in BOOLEAN,
          output_directory \in
              {NoneStr, Str(FALSE, <<RDir>>), Str(TRUE, Cwd \o <<RDir>>),
               Str(TRUE, Home \o <<QDir, RDir>>)} :
        \E r \in {speech_to_text(input_file_path, save_transcript_to_file,
                                 return_transcript_to_client_directly,
                                 output_directory, envBase, fs, now)} :
            /\ fs' = r.fs
            /\ remote' = IF r.status = "call"
                         THEN <<"speech_to_text.convert">> ELSE <<>>
            /\ last' = [op |-> "speech_to_text",
                        phase |-> IF r.status = "call" THEN "convert"
                                  ELSE "done",
                        input_file_path |-> input_file_path,
                        save_transcript_to_file |-> save_transcript_to_file,
                        return_transcript_to_client_directly |->
                            return_transcript_to_client_directly,
                        output_directory |-> output_directory,
                        status |-> r.status, err |-> r.err, msg |-> r.msg,
                        probes |-> r.probes, output_path |-> r.output_path,
                        output_file |-> r.output_file,
                        value |-> [kind |-> "none"], answered |-> FALSE,
                        before |-> fs]
            /\ UNCHANGED <<tmp, linesep, envBase, now, written, cloud>>

\* the service answers the request in flight: a failure, a transcript, a
\* transcript UTF-8 cannot encode
Transcription ==
    /\ last.op = "speech_to_text"
    /\ last.phase = "convert"
    /\ \E api \in {[ok |-> FALSE, text |-> <<>>],
                   [ok |-> TRUE, text |-> <<"a">>],
                   [ok |-> TRUE, text |-> <<SUR>>]} :
        \E r \in {SaveTranscript(api, last.save_transcript_to_file,
                                 last.return_transcript_to_client_directly,
                                 last.output_file, fs, linesep)} :
            /\ fs' = r.fs
            /\ last' = [last EXCEPT !.phase = "done", !.status = r.status,
                                    !.err = r.err, !.value = r.value,
                                    !.answered = api.ok]
            /\ UNCHANGED <<tmp, linesep, envBase, now, remote, written, cloud>>

NextTranscribe == SpeechToText \/ Transcription

SpecTranscribe == InitInput /\ [][NextTranscribe]_vars

Transcribing == last.op = "speech_to_text"

\* the regular files of a filesystem, with what they hold
FilesOf(f) == {<<a, f[a].data>> : a \in {b \in DOMAIN f : f[b].kind = "file"}}

\* C21: speech_to_text fails before any file or network access when both
\* save_transcript_to_file and return_transcript_to_client_directly are
\* false; when save_transcript_to_file is false it resolves no output
\* directory and writes no file; when it is true the output directory is
\* there when the remote call is made, and a transcript file is written
\* only after the remote transcription has succeeded.
C21_Order ==
    Transcribing =>
        /\ (~last.save_transcript_to_file
               /\ ~last.return_transcript_to_client_directly)
              => /\ last.phase = "done"
                 /\ last.status = "raise"
                 /\ last.err = "ElevenLabsMcpError"
                 /\ last.probes = <<>>
                 /\ remote = <<>>
                 /\ fs = last.before
        /\ ~last.save_transcript_to_file
              => /\ last.output_path = NoPath
                 /\ fs = last.before
        /\ (last.save_transcript_to_file /\ last.phase = "convert")
              => /\ IsDir(fs, last.output_path)
                 /\ FilesOf(fs) = FilesOf(last.before)
        /\ FilesOf(fs) # FilesOf(last.before)
              => /\ last.phase = "done"
                 /\ last.answered
                 /\ last.save_transcript_to_file
                 /\ remote = <<"speech_to_text.convert">>

C21_Witness ==
    /\ Transcribing
    /\ last.phase = "done"
    /\ last.status = "ok"
    /\ last.save_transcript_to_file
    /\ ~Exists(last.before, last.output_path)
    /\ IsFile(fs, last.output_file)
    /\ ~Exists(last.before, last.output_file)
    /\ fs[Locate(last.output_file)].data = <<97>>

(***************************************************************************)
(* make_outbound_call                                                      *)
(***************************************************************************)
MaxPhones == 2       \* most phone numbers the account lists

\* _get_phone_number_by_id(phone_number_id), phone_numbers being what the
\* service lists: the first phone number with that id
get_phone_number_by_id(phone_number_id, phone_numbers) ==
    LET hits == {i \in 1..Len(phone_numbers) :
                    phone_numbers[i].phone_number_id = phone_number_id}
    IN  IF hits = {} THEN [found |-> FALSE, provider |-> PyNone]
        ELSE [found |-> TRUE,
              provider |-> phone_numbers[CHOOSE i \in hits :
                                            \A j \in hits : i <= j].provider]

\* make_outbound_call(agent_id, agent_phone_number_id, to_number); api
\* tells what the service answers: list for the phone numbers, call for
\* the outbound call
make_outbound_call(agent_phone_number_id, api) ==
    LET phone_number == get_phone_number_by_id(agent_phone_number_id,
                                               api.list.phone_numbers)
        fail(err, msg, calls) ==
            [status |-> "raise", err |-> err, msg |-> msg, calls |-> calls]
        place(call, provider_info) ==
            IF api.call
            THEN [status |-> "ok", err |-> "", msg |-> provider_info,
                  calls |-> <<"phone_numbers.list", call>>]
            ELSE fail("ApiError", "", <<"phone_numbers.list", call>>)
    IN  IF ~api.list.ok THEN fail("ApiError", "", <<"phone_numbers.list">>)
        ELSE IF ~phone_number.found
        THEN fail("ElevenLabsMcpError", "not found", <<"phone_numbers.list">>)
        ELSE IF phone_number.provider.tag # "str"
        THEN fail("AttributeError", "", <<"phone_numbers.list">>)
        ELSE IF LowerStr(phone_number.provider.v)
                    = <<"t", "w", "i", "l", "i", "o">>
        THEN place("twilio.outbound_call", "Twilio")
        ELSE IF LowerStr(phone_number.provider.v)
                    = <<"s", "i", "p", US, "t", "r", "u", "n", "k">>
        THEN place("sip_trunk.outbound_call", "SIP trunk")
        ELSE fail("ElevenLabsMcpError", "Unsupported provider type",
                  <<"phone_numbers.list">>)

\* a call of the tool with an account that lists phone numbers p1 and p2
\* under providers spelled in several cases, unsupported or missing, or
\* whose listing fails
MakeOutboundCall ==
    \E agent_phone_number_id \in {"p1", "p2", "p9"},
       phone_numbers \in SeqsUpTo(
           [phone_number_id : {"p1", "p2"},
            provider : {StrOf(<<"t", "w", "i", "l", "i", "o">>),
                        StrOf(<<"T", "w", "i", "l", "i", "o">>),
                        StrOf(<<"s", "i", "p", US, "t", "r", "u", "n", "k">>),
                        StrOf(<<"S", "I", "P", US, "T", "R", "U", "N", "K">>),
                        StrOf(<<"s", "i", "p">>), PyNone}],
           MaxPhones),
       listed \in BOOLEAN, call \in BOOLEAN :
        \E r \in {make_outbound_call(
                      agent_phone_number_id,
                      [list |-> [ok |-> listed,
                                 phone_numbers |-> IF listed THEN phone_numbers
                                                   ELSE <<>>],
                       call |-> call])} :
            /\ remote' = r.calls
            /\ last' = [op |-> "make_outbound_call",
                        agent_phone_number_id |-> agent_phone_number_id,
                        listed |-> listed,
                        phone_numbers |-> IF listed THEN phone_numbers
                                          ELSE <<>>,
                        status |-> r.status, err |-> r.err, msg |-> r.msg]
            /\ UNCHANGED <<fs, tmp, linesep, envBase, now, written, cloud>>

NextCall == MakeOutboundCall

SpecCall == InitTool /\ [][NextCall]_vars

Called == last.op = "make_outbound_call"

\* the outbound-call requests of the last invocation
Outbound ==
    SelectSeq(remote, LAMBDA c : c \in {"twilio.outbound_call",
                                        "sip_trunk.outbound_call"})

\* the provider of the given phone number as the account lists it first:
\* one of the spellings of "twilio", of "sip_trunk", or something else
ListedAs(spellings) ==
    /\ last.listed
    /\ \E i \in 1..Len(last.phone_numbers) :
          /\ last.phone_numbers[i].phone_number_id
                 = last.agent_phone_number_id
          /\ \A j \in 1..(i - 1) :
                last.phone_numbers[j].phone_number_id
                    # last.agent_phone_number_id
          /\ last.phone_numbers[i].provider \in spellings

\* C22: make_outbound_call places a call only when the given phone-number
\* id is found in the account's phone-number list and its provider,
\* compared case-insensitively, is "twilio" or "sip_trunk"; it then issues
\* exactly one outbound-call request, through the matching provider API;
\* in every other case it fails without placing any call.
C22_Provider ==
    Called =>
        /\ Outbound = <<"twilio.outbound_call">>
              <=> ListedAs({StrOf(<<"t", "w", "i", "l", "i", "o">>),
                            StrOf(<<"T", "w", "i", "l", "i", "o">>)})
        /\ Outbound = <<"sip_trunk.outbound_call">>
              <=> ListedAs({StrOf(<<"s", "i", "p", US, "t", "r", "u", "n",
                                    "k">>),
                            StrOf(<<"S", "I", "P", US, "T", "R", "U", "N",
                                    "K">>)})
        /\ Len(Outbound) <= 1
        /\ Outbound = <<>> => last.status = "raise"

C22_Witness ==
    /\ Called
    /\ last.status = "ok"
    /\ Len(last.phone_numbers) = 2
    /\ last.phone_numbers[1].phone_number_id # last.agent_phone_number_id
    /\ last.phone_numbers[2].provider
           = StrOf(<<"S", "I", "P", US, "T", "R", "U", "N", "K">>)
    /\ remote = <<"phone_numbers.list", "sip_trunk.outbound_call">>

====
